---- MODULE Spec2Model ----
(***************************************************************************)
(* A model of kes-rs: the bytecode compiler (src/src/compiler.rs), the     *)
(* stack VM (src/src/context.rs), the Symbol conversion of the interner    *)
(* (src/src/interner.rs), the Program artifact (src/src/program.rs) and    *)
(* the source formatter (src/src/formatter.rs).                            *)
(*                                                                         *)
(* Positions are those of the code (0-based indices into the instruction   *)
(* vector); a TLA+ sequence is 1-based, so instruction p is out[p + 1].    *)
(***************************************************************************)
EXTENDS Integers, Sequences, FiniteSets, TLC

VARIABLES
    phase,      \* position of the driver of the specification at hand
    ast,        \* compiler: the AST handed to Compiler::compile
    compiled,   \* compiler: the state of the Compiler after compile
    vm,         \* VM: the Context and the Builtin it runs with
    steps,      \* VM: instructions executed so far
    hist,       \* VM: the simple statement under execution (history)
    intern,     \* interner: the Interner, the call made last, the symbols issued
                \* with the strings they were issued for (history)
    serde,      \* serialization: the Program, its bytes, what they decode to
    fmt,        \* formatter: the source, its formatted texts, their runs
    io          \* the tools: the messages of a connection, the files of a disk

vars == <<phase, ast, compiled, vm, steps, hist, intern, serde, fmt, io>>

compilerVars == <<ast, compiled>>
vmVars == <<vm, steps, hist>>

\* The parts of the state a specification does not use stay as they are here.
IdleCompiler == ast = <<>> /\ compiled = <<>>
IdleVM == vm = <<>> /\ steps = 0 /\ hist = <<>>
IdleInterner == intern = <<>>
IdleSerde == serde = <<>>
IdleFormatter == fmt = <<>>
IdleIO == io = <<>>

(***************************************************************************)
(* Bounds of the model.                                                    *)
(***************************************************************************)
MaxArms == 2     \* arms of an If statement
MaxDepth == 2    \* nesting depth of If / While statements
MaxProgram == 2  \* statements of a top-level program

(***************************************************************************)
(* AST (the shapes matched by compiler.rs and formatter.rs).               *)
(***************************************************************************)
Number(n) == [t |-> "Number", num |-> n]
String(s) == [t |-> "String", str |-> s]
Variable(v) == [t |-> "Variable", var |-> v]
BuiltinFunc(name, args) == [t |-> "BuiltinFunc", name |-> name, args |-> args]
UnaryOp(op, value) == [t |-> "UnaryOp", value |-> value, op |-> op]
BinaryOp(lhs, op, rhs) == [t |-> "BinaryOp", lhs |-> lhs, rhs |-> rhs, op |-> op]
TernaryOp(lhs, mhs, rhs) ==
    [t |-> "TernaryOp", lhs |-> lhs, mhs |-> mhs, rhs |-> rhs, op |-> "Conditional"]

StmtExit(loc) == [t |-> "Exit", location |-> loc]
StmtPrint(values, newline, wait, loc) ==
    [t |-> "Print", values |-> values, newline |-> newline, wait |-> wait,
     location |-> loc]
StmtAssign(var, value, loc) ==
    [t |-> "Assign", var |-> var, value |-> value, location |-> loc]
StmtExpression(expr, loc) == [t |-> "Expression", expr |-> expr, location |-> loc]
Arm(cond, body) == [cond |-> cond, body |-> body]
StmtIf(arms, other, loc) ==
    [t |-> "If", arms |-> arms, other |-> other, location |-> loc]
StmtWhile(cond, body, loc) ==
    [t |-> "While", cond |-> cond, body |-> body, location |-> loc]

(***************************************************************************)
(* Instructions (the variants Compiler pushes).                            *)
(***************************************************************************)
Nop == [op |-> "Nop"]
Exit == [op |-> "Exit"]
Pop == [op |-> "Pop"]
LoadInt(n) == [op |-> "LoadInt", arg |-> n]
LoadStr(s) == [op |-> "LoadStr", arg |-> s]
LoadVar(v) == [op |-> "LoadVar", arg |-> v]
StoreVar(v) == [op |-> "StoreVar", arg |-> v]
CallBuiltin(name) == [op |-> "CallBuiltin", arg |-> name]
PrintInst(newline, wait) == [op |-> "Print", newline |-> newline, wait |-> wait]
UnaryOperator(o) == [op |-> "UnaryOperator", arg |-> o]
BinaryOperator(o) == [op |-> "BinaryOperator", arg |-> o]
TernaryOperator(o) == [op |-> "TernaryOperator", arg |-> o]
Goto(p) == [op |-> "Goto", arg |-> p]
GotoIfNot(p) == [op |-> "GotoIfNot", arg |-> p]

IsJump(inst) == inst.op \in {"Goto", "GotoIfNot"}

(***************************************************************************)
(* Compiler (compiler.rs).  A Compiler is [out, location, panicked]:       *)
(* panicked records the abort of ArrayVec::push on a full else_mark.       *)
(***************************************************************************)
ElseMarkCapacity == 20

CompilerNew == [out |-> <<>>, location |-> 0, panicked |-> FALSE]

push(c, inst) ==
    [c EXCEPT !.out = Append(@, [inst |-> inst, location |-> c.location])]

next_pos(c) == Len(c.out)

\* mark_pos pushes the placeholder; the position it returns is next_pos
\* of the compiler it was called on.
mark_pos(c) == push(c, Nop)

set_inst(c, pos, inst) == [c EXCEPT !.out[pos + 1].inst = inst]

set_location(c, loc) == [c EXCEPT !.location = loc]

RECURSIVE push_expr(_, _)
RECURSIVE push_exprs(_, _)
RECURSIVE compile_stmt(_, _)
RECURSIVE compile_body(_, _)
RECURSIVE compile_arms(_, _, _, _, _)
RECURSIVE patch_else_marks(_, _, _)

RECURSIVE PushExprsReversed(_, _)
PushExprsReversed(c, exprs) ==
    IF exprs = <<>> THEN c
    ELSE PushExprsReversed(push_expr(c, exprs[Len(exprs)]),
                           SubSeq(exprs, 1, Len(exprs) - 1))

push_exprs(c, exprs) ==
    IF exprs = <<>> THEN c
    ELSE push_exprs(push_expr(c, Head(exprs)), Tail(exprs))

push_expr(c, expr) ==
    CASE expr.t = "Number" -> push(c, LoadInt(expr.num))
      [] expr.t = "String" -> push(c, LoadStr(expr.str))
      [] expr.t = "Variable" -> push(c, LoadVar(expr.var))
      [] expr.t = "BuiltinFunc" ->
            push(push_exprs(c, expr.args), CallBuiltin(expr.name))
      [] expr.t = "UnaryOp" ->
            push(push_expr(c, expr.value), UnaryOperator(expr.op))
      [] expr.t = "BinaryOp" ->
            push(push_expr(push_expr(c, expr.lhs), expr.rhs),
                 BinaryOperator(expr.op))
      [] expr.t = "TernaryOp" ->
            push(push_expr(push_expr(push_expr(c, expr.lhs), expr.mhs), expr.rhs),
                 TernaryOperator(expr.op))

\* Mutants of PatchPrevArm: the patch left out; the patch aimed at the arm's
\* own body.
PatchPrevArmSkipped(c, first, mark) == c

PatchPrevArmToBody(c, first, mark) ==
    IF first THEN c ELSE set_inst(c, mark, GotoIfNot(mark + 1))

\* The patch of the previous arm's placeholder at the head of the loop over
\* the arms (compiler.rs:83-86).
PatchPrevArm(c, first, mark) ==
    IF first THEN c ELSE set_inst(c, mark, GotoIfNot(next_pos(c)))

\* The loop over the arms of an If (compiler.rs:80-94).  Returns
\* [c, mark, else_mark]; idx is the 1-based index of the next arm.
compile_arms(c, arms, idx, mark, else_mark) ==
    IF idx > Len(arms) \/ c.panicked
    THEN [c |-> c, mark |-> mark, else_mark |-> else_mark]
    ELSE LET c1 == PatchPrevArm(c, idx = 1, mark)
             c2 == push_expr(c1, arms[idx].cond)
             mark2 == next_pos(c2)
             c3 == mark_pos(c2)
             c4 == compile_body(c3, arms[idx].body)
         IN  IF c4.panicked
             THEN [c |-> c4, mark |-> mark2, else_mark |-> else_mark]
             ELSE IF Len(else_mark) >= ElseMarkCapacity
             THEN [c |-> [c4 EXCEPT !.panicked = TRUE], mark |-> mark2,
                   else_mark |-> else_mark]
             ELSE compile_arms(mark_pos(c4), arms, idx + 1, mark2,
                               Append(else_mark, next_pos(c4)))

\* Mutant of PatchLastArm: the target one past the position reached.
PatchLastArmPast(c, arms, mark) ==
    IF arms /= <<>> THEN set_inst(c, mark, GotoIfNot(next_pos(c) + 1)) ELSE c

\* The patch of the last arm's placeholder (compiler.rs:96-98).
PatchLastArm(c, arms, mark) ==
    IF arms /= <<>> THEN set_inst(c, mark, GotoIfNot(next_pos(c))) ELSE c

\* Mutant of patch_else_marks: the arm ends jump one past the end of the If.
RECURSIVE PatchElseMarksPast(_, _, _)
PatchElseMarksPast(c, else_mark, target) ==
    IF else_mark = <<>> THEN c
    ELSE PatchElseMarksPast(set_inst(c, Head(else_mark), Goto(target + 1)),
                            Tail(else_mark), target)

\* The patch of the arm ends (compiler.rs:102-104).
patch_else_marks(c, else_mark, target) ==
    IF else_mark = <<>> THEN c
    ELSE patch_else_marks(set_inst(c, Head(else_mark), Goto(target)),
                          Tail(else_mark), target)

compile_if(c, stmt) ==
    LET r == compile_arms(set_location(c, stmt.location), stmt.arms, 1, 0, <<>>)
    IN  IF r.c.panicked THEN r.c
        ELSE LET c1 == PatchLastArm(r.c, stmt.arms, r.mark)
                 c2 == compile_body(c1, stmt.other)
             IN  IF c2.panicked THEN c2
                 ELSE patch_else_marks(c2, r.else_mark, next_pos(c2))

\* Mutant of WhileBackTarget: the start of the program, not of the loop.
WhileBackTargetZero(first) == 0

\* The target of the Goto that closes a While (compiler.rs:117).
WhileBackTarget(first) == first

compile_while(c, stmt) ==
    LET c0 == set_location(c, stmt.location)
        first == next_pos(c0)
        c1 == push_expr(c0, stmt.cond)
        end == next_pos(c1)
        c2 == compile_body(mark_pos(c1), stmt.body)
    IN  IF c2.panicked THEN c2
        ELSE LET c3 == push(c2, Goto(WhileBackTarget(first)))
             IN  set_inst(c3, end, GotoIfNot(next_pos(c3)))

compile_stmt(c, stmt) ==
    CASE stmt.t = "Exit" -> push(set_location(c, stmt.location), Exit)
      [] stmt.t = "Print" ->
            push(push_exprs(set_location(c, stmt.location), stmt.values),
                 PrintInst(stmt.newline, stmt.wait))
      [] stmt.t = "Assign" ->
            push(push_expr(set_location(c, stmt.location), stmt.value),
                 StoreVar(stmt.var))
      [] stmt.t = "Expression" ->
            push(push_expr(set_location(c, stmt.location), stmt.expr), Pop)
      [] stmt.t = "If" -> compile_if(c, stmt)
      [] stmt.t = "While" -> compile_while(c, stmt)

compile_body(c, body) ==
    IF body = <<>> \/ c.panicked THEN c
    ELSE compile_body(compile_stmt(c, Head(body)), Tail(body))

compile(program) == compile_body(CompilerNew, program)

(***************************************************************************)
(* Inputs of the compiler: bounded sets of ASTs.  Every statement gets the *)
(* line of its position in a pre-order walk (one statement per line), as   *)
(* a parser would number a source with one statement per line.             *)
(***************************************************************************)
SeqsUpTo(S, n) == UNION {[1..k -> S] : k \in 0..n}
SeqsFromTo(S, m, n) == UNION {[1..k -> S] : k \in m..n}

CondExprs == {Number(1), BinaryOp(Variable(<<"x">>), "Less", Number(2))}

SimpleStmts ==
    {StmtExpression(Number(7), 0),
     StmtAssign(<<"x">>, BinaryOp(Variable(<<"x">>), "Add", Number(1)), 0)}

MoreSimpleStmts ==
    {StmtExit(0),
     StmtPrint(<<Number(1), String(<<"s">>)>>, TRUE, FALSE, 0),
     StmtExpression(BuiltinFunc(<<"f">>, <<Number(1), Number(2)>>), 0),
     StmtExpression(TernaryOp(Number(1), Number(2), Number(3)), 0),
     StmtExpression(UnaryOp("Not", Number(0)), 0)}

SimpleBodies == {<<>>, <<StmtExpression(Number(7), 0)>>}

\* If and While statements whose bodies hold no If or While.
FlatControl ==
    {StmtIf(arms, other, 0) :
        arms \in SeqsUpTo({Arm(c, b) : c \in CondExprs, b \in SimpleBodies}, MaxArms),
        other \in SimpleBodies}
    \cup {StmtWhile(c, b, 0) : c \in CondExprs, b \in SimpleBodies}

\* The statements that hold statement s in one of their bodies.
Around(s) ==
    LET c1 == Number(1)
        c2 == BinaryOp(Variable(<<"x">>), "Less", Number(2))
        e == StmtExpression(Number(7), 0)
    IN  {StmtWhile(c1, <<s>>, 0),
         StmtWhile(c2, <<e, s>>, 0),
         StmtIf(<<Arm(c1, <<s>>)>>, <<>>, 0),
         StmtIf(<<Arm(c1, <<e>>)>>, <<s>>, 0),
         StmtIf(<<Arm(c1, <<>>), Arm(c2, <<s, e>>)>>, <<e>>, 0),
         StmtIf(<<Arm(c2, <<s>>), Arm(c1, <<e>>)>>, <<>>, 0)}

RECURSIVE Control(_)
Control(depth) ==
    IF depth <= 1 THEN FlatControl
    ELSE FlatControl \cup UNION {Around(s) : s \in Control(depth - 1)}

RawPrograms ==
    {pre \o <<s>> \o post :
        pre \in SeqsUpTo(SimpleStmts, MaxProgram - 1),
        s \in Control(MaxDepth),
        post \in {<<>>, <<StmtExpression(Number(7), 0)>>}}
    \cup {<<s>> : s \in MoreSimpleStmts}
    \cup {<<>>}

RECURSIVE LocateBody(_, _)
RECURSIVE LocateArms(_, _)
RECURSIVE LocateStmt(_, _)

\* Each returns [v, next]: the statement(s) with their lines, and the next
\* free line.
LocateBody(body, line) ==
    IF body = <<>> THEN [v |-> <<>>, next |-> line]
    ELSE LET h == LocateStmt(Head(body), line)
             r == LocateBody(Tail(body), h.next)
         IN  [v |-> <<h.v>> \o r.v, next |-> r.next]

LocateArms(arms, line) ==
    IF arms = <<>> THEN [v |-> <<>>, next |-> line]
    ELSE LET b == LocateBody(Head(arms).body, line)
             r == LocateArms(Tail(arms), b.next)
         IN  [v |-> <<[Head(arms) EXCEPT !.body = b.v]>> \o r.v, next |-> r.next]

LocateStmt(stmt, line) ==
    CASE stmt.t = "If" ->
            LET a == LocateArms(stmt.arms, line + 1)
                o == LocateBody(stmt.other, a.next)
            IN  [v |-> [stmt EXCEPT !.location = line, !.arms = a.v, !.other = o.v],
                 next |-> o.next]
      [] stmt.t = "While" ->
            LET b == LocateBody(stmt.body, line + 1)
            IN  [v |-> [stmt EXCEPT !.location = line, !.body = b.v], next |-> b.next]
      [] OTHER -> [v |-> [stmt EXCEPT !.location = line], next |-> line + 1]

Programs == {LocateBody(p, 1).v : p \in RawPrograms}

(***************************************************************************)
(* The compiler specification: an AST is drawn, Compiler::compile runs.    *)
(***************************************************************************)
NoProgram == [out |-> <<>>, location |-> 0, panicked |-> FALSE]

Init ==
    /\ phase = "parsed"
    /\ ast \in Programs
    /\ compiled = NoProgram
    /\ IdleVM
    /\ IdleInterner
    /\ IdleSerde
    /\ IdleFormatter
    /\ IdleIO

Compile ==
    /\ phase = "parsed"
    /\ compiled' = compile(ast)
    /\ phase' = "compiled"
    /\ UNCHANGED <<ast, vmVars, intern, serde, fmt, io>>

Next == Compile

Spec == Init /\ [][Next]_vars

(***************************************************************************)
(* The compiler on If statements of many arms: the same Compile, on an If  *)
(* of up to MaxManyArms arms, alone or inside the body of a While or of an *)
(* arm of another If.                                                      *)
(***************************************************************************)
MaxManyArms == 21    \* arms of an If statement, beyond ElseMarkCapacity

ManyArms(n, cond, body) == [i \in 1..n |-> Arm(cond, body)]

ManyArmsStmts ==
    {StmtIf(ManyArms(n, c, b), o, 0) :
        n \in 0..MaxManyArms, c \in CondExprs, b \in SimpleBodies, o \in SimpleBodies}

ManyArmsPrograms ==
    {LocateBody(p, 1).v :
        p \in {<<s>> : s \in ManyArmsStmts}
              \cup {<<StmtWhile(Number(1), <<s>>, 0)>> : s \in ManyArmsStmts}
              \cup {<<StmtIf(<<Arm(Number(1), <<s>>)>>, <<>>, 0)>> : s \in ManyArmsStmts}}

InitManyArms ==
    /\ phase = "parsed"
    /\ ast \in ManyArmsPrograms
    /\ compiled = NoProgram
    /\ IdleVM
    /\ IdleInterner
    /\ IdleSerde
    /\ IdleFormatter
    /\ IdleIO

SpecManyArms == InitManyArms /\ [][Next]_vars

\* The instruction vector Compiler::compile returned.
Out == compiled.out
Returned == phase = "compiled" /\ ~compiled.panicked
InstAt(p) == Out[p + 1].inst

(***************************************************************************)
(* The layout of a statement's code, from the lengths of its parts alone:  *)
(* the vocabulary of the claims about the compiled code.                   *)
(***************************************************************************)
RECURSIVE ExprLen(_)
RECURSIVE ExprsLen(_)
RECURSIVE StmtLen(_)
RECURSIVE BodyLen(_)
RECURSIVE ArmsLen(_)

ExprsLen(exprs) ==
    IF exprs = <<>> THEN 0 ELSE ExprLen(Head(exprs)) + ExprsLen(Tail(exprs))

ExprLen(expr) ==
    CASE expr.t \in {"Number", "String", "Variable"} -> 1
      [] expr.t = "BuiltinFunc" -> ExprsLen(expr.args) + 1
      [] expr.t = "UnaryOp" -> ExprLen(expr.value) + 1
      [] expr.t = "BinaryOp" -> ExprLen(expr.lhs) + ExprLen(expr.rhs) + 1
      [] expr.t = "TernaryOp" ->
            ExprLen(expr.lhs) + ExprLen(expr.mhs) + ExprLen(expr.rhs) + 1

ArmLen(arm) == ExprLen(arm.cond) + 1 + BodyLen(arm.body) + 1

ArmsLen(arms) ==
    IF arms = <<>> THEN 0 ELSE ArmLen(Head(arms)) + ArmsLen(Tail(arms))

StmtLen(stmt) ==
    CASE stmt.t = "Exit" -> 1
      [] stmt.t = "Print" -> ExprsLen(stmt.values) + 1
      [] stmt.t = "Assign" -> ExprLen(stmt.value) + 1
      [] stmt.t = "Expression" -> ExprLen(stmt.expr) + 1
      [] stmt.t = "If" -> ArmsLen(stmt.arms) + BodyLen(stmt.other)
      [] stmt.t = "While" -> ExprLen(stmt.cond) + 1 + BodyLen(stmt.body) + 1

BodyLen(body) ==
    IF body = <<>> THEN 0 ELSE StmtLen(Head(body)) + BodyLen(Tail(body))

\* Arm i (1-based) of an If whose code starts at start.
ArmStart(stmt, start, i) == start + ArmsLen(SubSeq(stmt.arms, 1, i - 1))
ArmJump(stmt, start, i) == ArmStart(stmt, start, i) + ExprLen(stmt.arms[i].cond)
ArmEnd(stmt, start, i) == ArmStart(stmt, start, i) + ArmLen(stmt.arms[i]) - 1
ElseStart(stmt, start) == start + ArmsLen(stmt.arms)
IfEnd(stmt, start) == start + StmtLen(stmt)

\* A While whose code starts at start.
WhileJump(stmt, start) == start + ExprLen(stmt.cond)
WhileGoto(stmt, start) == start + StmtLen(stmt) - 1

\* Every statement of a body, at any depth, with the position of its code
\* and the body that holds it at the depth it has.
RECURSIVE Placed(_, _, _)
RECURSIVE PlacedArms(_, _, _, _)
PlacedArms(stmt, start, i, depth) ==
    IF i > Len(stmt.arms) THEN {}
    ELSE Placed(stmt.arms[i].body, ArmJump(stmt, start, i) + 1, depth)
         \cup PlacedArms(stmt, start, i + 1, depth)

Placed(body, start, depth) ==
    IF body = <<>> THEN {}
    ELSE LET h == Head(body)
             inner ==
                CASE h.t = "If" ->
                        PlacedArms(h, start, 1, depth + 1)
                        \cup Placed(h.other, ElseStart(h, start), depth + 1)
                  [] h.t = "While" ->
                        Placed(h.body, WhileJump(h, start) + 1, depth + 1)
                  [] OTHER -> {}
         IN  {[stmt |-> h, start |-> start, depth |-> depth]} \cup inner
             \cup Placed(Tail(body), start + StmtLen(h), depth)

PlacedStmts == Placed(ast, 0, 0)

(***************************************************************************)
(* C1.  For every program Compiler::compile returns, the target of every   *)
(* Goto and GotoIfNot lies in [0, len], len the length of the instruction  *)
(* vector.                                                                 *)
(***************************************************************************)
C1_JumpTargetsInRange ==
    Returned =>
        \A i \in 1..Len(Out) :
            IsJump(Out[i].inst) => Out[i].inst.arg \in 0..Len(Out)

\* A returned program with a jump to len (an If or While that ends the
\* program) and a jump to 0 (a While that starts it).
C1_Witness ==
    /\ Returned
    /\ \E i \in 1..Len(Out) : IsJump(Out[i].inst) /\ Out[i].inst.arg = Len(Out)
    /\ \E i \in 1..Len(Out) : Out[i].inst.op = "Goto" /\ Out[i].inst.arg = 0

(***************************************************************************)
(* C2.  After Compiler::compile returns, the instruction vector holds no   *)
(* Nop: every placeholder of mark_pos was overwritten by a Goto or a       *)
(* GotoIfNot, for every nesting of If and While.                           *)
(***************************************************************************)
C2_NoNopRemains ==
    Returned =>
        /\ \A i \in 1..Len(Out) : Out[i].inst.op /= "Nop"
        /\ \A l \in PlacedStmts :
              /\ l.stmt.t = "If" =>
                    \A i \in 1..Len(l.stmt.arms) :
                        /\ InstAt(ArmJump(l.stmt, l.start, i)).op = "GotoIfNot"
                        /\ InstAt(ArmEnd(l.stmt, l.start, i)).op = "Goto"
              /\ l.stmt.t = "While" =>
                    InstAt(WhileJump(l.stmt, l.start)).op = "GotoIfNot"

\* A returned program in which an If of two arms sits in the body of a
\* While: placeholders of all three kinds were reserved and patched.
C2_Witness ==
    /\ Returned
    /\ \E l \in PlacedStmts, m \in PlacedStmts :
          /\ l.stmt.t = "While" /\ m.stmt.t = "If" /\ Len(m.stmt.arms) >= 2
          /\ m.depth = l.depth + 1
          /\ m.start > l.start /\ m.start < l.start + StmtLen(l.stmt)

(***************************************************************************)
(* C3.  In the code of an If, the GotoIfNot of arm i targets the first     *)
(* instruction of the condition of arm i+1 (for the last arm: the first    *)
(* instruction of the else body, which is the end of the chain when there  *)
(* is no else), and the Goto that ends every arm targets the index right   *)
(* after the else body.                                                    *)
(***************************************************************************)
IfCodeRight(stmt, start) ==
    LET n == Len(stmt.arms)
    IN  /\ \A i \in 1..n :
              InstAt(ArmJump(stmt, start, i)) =
                  GotoIfNot(IF i < n THEN ArmStart(stmt, start, i + 1)
                            ELSE ElseStart(stmt, start))
        /\ \A i \in 1..n : InstAt(ArmEnd(stmt, start, i)) = Goto(IfEnd(stmt, start))
        /\ stmt.other = <<>> => ElseStart(stmt, start) = IfEnd(stmt, start)

C3_IfJumps ==
    Returned =>
        \A l \in PlacedStmts : l.stmt.t = "If" => IfCodeRight(l.stmt, l.start)

\* A returned program with an If of two arms and an else body, and a nested
\* If without else.
C3_Witness ==
    /\ Returned
    /\ \E l \in PlacedStmts :
          l.stmt.t = "If" /\ Len(l.stmt.arms) = 2 /\ l.stmt.other /= <<>>
    /\ \E l \in PlacedStmts :
          l.stmt.t = "If" /\ l.depth > 0 /\ l.stmt.other = <<>> /\ l.stmt.arms /= <<>>

(***************************************************************************)
(* C4.  In the code of a While, the GotoIfNot after the condition targets  *)
(* the index right after the closing Goto, and the closing Goto targets    *)
(* the first instruction of the condition.                                 *)
(***************************************************************************)
WhileCodeRight(stmt, start) ==
    /\ InstAt(WhileJump(stmt, start)) = GotoIfNot(WhileGoto(stmt, start) + 1)
    /\ InstAt(WhileGoto(stmt, start)) = Goto(start)

C4_WhileJumps ==
    Returned =>
        \A l \in PlacedStmts : l.stmt.t = "While" => WhileCodeRight(l.stmt, l.start)

\* A returned program with a While that does not start the program and a
\* While nested in another statement.
C4_Witness ==
    /\ Returned
    /\ \E l \in PlacedStmts : l.stmt.t = "While" /\ l.depth = 0 /\ l.start > 0
    /\ \E l \in PlacedStmts : l.stmt.t = "While" /\ l.depth > 0

(***************************************************************************)
(* Values (value.rs).  A Str holds its characters as a sequence.           *)
(***************************************************************************)
IntValue(n) == [t |-> "Int", v |-> n]
StrValue(s) == [t |-> "Str", v |-> s]

\* u32 is modelled IntBits wide: U32 is the number of its values.
IntBits == 8
U32 == 2 ^ IntBits

\* Mutant of into_bool: every Str is true.
IntoBoolAnyStr(v) == IF v.t = "Int" THEN v.v /= 0 ELSE TRUE

into_bool(v) == IF v.t = "Int" THEN v.v /= 0 ELSE v.v /= <<>>

type_name(v) == IF v.t = "Int" THEN "int" ELSE "str"

FromBool(b) == IF b THEN IntValue(1) ELSE IntValue(0)

\* Display of a u32: its decimal digits.
RECURSIVE Digits(_)
Digits(n) ==
    LET d == <<"0", "1", "2", "3", "4", "5", "6", "7", "8", "9">>[(n % 10) + 1]
    IN  IF n < 10 THEN <<d>> ELSE Digits(n \div 10) \o <<d>>

\* The order of the characters the model's strings are made of.
CharOrder ==
    <<"\n", " ", "!", "#", "$", "'", "(", ")", "*", "+", ",", "-", "0", "1", "2", "3", "4", "5", "6",
      "7", "8", "9", ":", ";", "<", "=", "?", "@", "a", "b", "c", "f", "g", "s", "x",
      "y", "{", "}">>
CharCode(ch) == CHOOSE i \in 1..Len(CharOrder) : CharOrder[i] = ch

RECURSIVE StrLess(_, _)
StrLess(a, b) ==
    IF b = <<>> THEN FALSE
    ELSE IF a = <<>> THEN TRUE
    ELSE IF Head(a) = Head(b) THEN StrLess(Tail(a), Tail(b))
    ELSE CharCode(Head(a)) < CharCode(Head(b))

\* The derived PartialOrd of Value: every Int before every Str.
ValueLess(a, b) ==
    IF a.t = "Int" /\ b.t = "Int" THEN a.v < b.v
    ELSE IF a.t = "Int" THEN TRUE
    ELSE IF b.t = "Int" THEN FALSE
    ELSE StrLess(a.v, b.v)

(***************************************************************************)
(* The VM (context.rs).  A Context is [cursor, stack, variables, status,   *)
(* err]: stack is the Vec of blocks, each a Vec of values; status is       *)
(* "running", "done" (run returned Ok), "error" (run returned err) or      *)
(* "panic" (the program aborted).  A Builtin is the sequence of the calls  *)
(* it received.                                                            *)
(***************************************************************************)
Absent == [t |-> "Absent"]

\* variables is the map of the names stored so far to their values.
ContextNew ==
    [cursor |-> 0, stack |-> <<>>, variables |-> [n \in {} |-> Absent],
     status |-> "running", err |-> <<>>]

Insert(map, key, value) ==
    [k \in DOMAIN map \cup {key} |-> IF k = key THEN value ELSE map[k]]

\* The context the code of a program runs in: every program of the
\* instruction-emitting parser opens the root block first (parser.rs:50),
\* the code of Compiler::compile is run with that block open.
RootContext == [ContextNew EXCEPT !.stack = <<<<>>>>]

BuiltinNew == <<>>

CallPrint(v) == [call |-> "print", arg |-> v]
CallNewLine == [call |-> "new_line", arg |-> <<>>]
CallWait == [call |-> "wait", arg |-> <<>>]
CallRun(name) == [call |-> "run", arg |-> name]

\* A VM step works on m = [ctx, builtin]; insts is the instruction vector.
Panic(m) == [m EXCEPT !.ctx.status = "panic"]
FailSkipping(m, e) ==
    [m EXCEPT !.ctx.status = "error", !.ctx.err = e, !.ctx.cursor = @ + 1]
Fail(m, e) == [m EXCEPT !.ctx.status = "error", !.ctx.err = e]
Stopped(m) == m.ctx.status /= "running"

current_instruction_line_no(m, insts) == insts[m.ctx.cursor + 1].location

ExecutionError(msg, line) == [kind |-> "ExecutionError", what |-> msg, line |-> line]
TypeError(name, line) == [kind |-> "TypeError", what |-> name, line |-> line]

make_err(m, insts, msg) == ExecutionError(msg, current_instruction_line_no(m, insts))

HasBlock(m) == m.ctx.stack /= <<>>
Top(m) == m.ctx.stack[Len(m.ctx.stack)]

\* current_block().push(v): unwrap aborts when there is no block.
vm_push(m, v) ==
    IF Stopped(m) THEN m
    ELSE IF ~HasBlock(m) THEN Panic(m)
    ELSE [m EXCEPT !.ctx.stack[Len(m.ctx.stack)] = Append(@, v)]

\* pop() is [m, v]: v is Absent for None.
vm_pop(m) ==
    IF Stopped(m) THEN [m |-> m, v |-> Absent]
    ELSE IF ~HasBlock(m) THEN [m |-> Panic(m), v |-> Absent]
    ELSE IF Top(m) = <<>> THEN [m |-> m, v |-> Absent]
    ELSE [m |-> [m EXCEPT !.ctx.stack[Len(m.ctx.stack)] = SubSeq(@, 1, Len(@) - 1)],
          v |-> Top(m)[Len(Top(m))]]

pop_ret(m, insts) ==
    LET r == vm_pop(m)
    IN  IF Stopped(r.m) THEN r
        ELSE IF r.v = Absent THEN [m |-> Fail(m, make_err(m, insts, "pop")), v |-> Absent]
        ELSE r

\* pop_into_ret::<u32>
pop_u32_ret(m, insts) ==
    LET r == pop_ret(m, insts)
    IN  IF Stopped(r.m) THEN r
        ELSE IF r.v.t /= "Int"
        THEN [m |-> Fail(r.m, TypeError(type_name(r.v),
                                       current_instruction_line_no(m, insts))),
              v |-> Absent]
        ELSE r

\* u32 arithmetic: an overflow aborts a debug build and wraps in a release
\* build; a division by zero aborts.
Arith(op, l, r) ==
    CASE op = "Add" -> l + r
      [] op = "Sub" -> l - r
      [] op = "Mul" -> l * r
      [] op = "Div" -> IF r = 0 THEN -1 ELSE l \div r
      [] op = "Rem" -> IF r = 0 THEN -1 ELSE l % r

ArithPush(m, op, l, r, build) ==
    LET x == Arith(op, l, r)
    IN  IF op \in {"Div", "Rem"} /\ r = 0 THEN Panic(m)
        ELSE IF x \in 0..(U32 - 1) THEN vm_push(m, IntValue(x))
        ELSE IF build = "debug" THEN Panic(m)
        ELSE vm_push(m, IntValue(x % U32))

binop(m, insts, op, build) ==
    LET r == pop_u32_ret(m, insts)
        l == pop_u32_ret(r.m, insts)
    IN  IF Stopped(r.m) THEN r.m
        ELSE IF Stopped(l.m) THEN l.m
        ELSE ArithPush(l.m, op, l.v.v, r.v.v, build)

\* Mutant of BoolOp: And answers for its right operand alone, as when the
\* left one is not looked at.
BoolOpRightOnly(op, l, r) ==
    CASE op = "And" -> r
      [] op = "Or" -> l \/ r
      [] op = "Xor" -> l /= r

BoolOp(op, l, r) ==
    CASE op = "And" -> l /\ r
      [] op = "Or" -> l \/ r
      [] op = "Xor" -> l /= r

binop_bool(m, insts, op) ==
    LET r == pop_ret(m, insts)
        l == pop_ret(r.m, insts)
    IN  IF Stopped(r.m) THEN r.m
        ELSE IF Stopped(l.m) THEN l.m
        ELSE vm_push(l.m, FromBool(BoolOp(op, into_bool(l.v), into_bool(r.v))))

RawOpInclusive(op, l, r) ==
    CASE op = "Equal" -> l = r
      [] op = "NotEqual" -> l /= r
      [] op = "Greater" -> ~ValueLess(l, r)
      [] op = "Less" -> ~ValueLess(r, l)
      [] op = "GreaterOrEqual" -> ~ValueLess(l, r)
      [] op = "LessOrEqual" -> ~ValueLess(r, l)

RawOp(op, l, r) ==
    CASE op = "Equal" -> l = r
      [] op = "NotEqual" -> l /= r
      [] op = "Greater" -> ValueLess(r, l)
      [] op = "Less" -> ValueLess(l, r)
      [] op = "GreaterOrEqual" -> ~ValueLess(l, r)
      [] op = "LessOrEqual" -> ~ValueLess(r, l)

binop_raw_bool(m, insts, op) ==
    LET r == pop_ret(m, insts)
        l == pop_ret(r.m, insts)
    IN  IF Stopped(r.m) THEN r.m
        ELSE IF Stopped(l.m) THEN l.m
        ELSE vm_push(l.m, FromBool(RawOp(op, l.v, r.v)))

OpNot(m, insts) ==
    LET r == pop_ret(m, insts)
    IN  IF Stopped(r.m) THEN r.m ELSE vm_push(r.m, FromBool(~into_bool(r.v)))

AddValues(l, r) ==
    CASE l.t = "Int" /\ r.t = "Int" -> IntValue(l.v + r.v)
      [] l.t = "Int" /\ r.t = "Str" -> StrValue(Digits(l.v) \o r.v)
      [] l.t = "Str" /\ r.t = "Int" -> StrValue(l.v \o Digits(r.v))
      [] l.t = "Str" /\ r.t = "Str" -> StrValue(l.v \o r.v)

OpAdd(m, insts, build) ==
    LET r == pop_ret(m, insts)
        l == pop_ret(r.m, insts)
    IN  IF Stopped(r.m) THEN r.m
        ELSE IF Stopped(l.m) THEN l.m
        ELSE IF l.v.t = "Int" /\ r.v.t = "Int"
        THEN ArithPush(l.m, "Add", l.v.v, r.v.v, build)
        ELSE vm_push(l.m, AddValues(l.v, r.v))

run_operator(m, insts, op, build) ==
    CASE op \in {"Equal", "NotEqual", "Greater", "Less", "GreaterOrEqual",
                 "LessOrEqual"} -> binop_raw_bool(m, insts, op)
      [] op \in {"And", "Or", "Xor"} -> binop_bool(m, insts, op)
      [] op = "Not" -> OpNot(m, insts)
      [] op = "Add" -> OpAdd(m, insts, build)
      [] op \in {"Sub", "Mul", "Div", "Rem"} -> binop(m, insts, op, build)

\* Mutant of Advance: the cursor stays on the instruction.
AdvanceStay(m) == m

\* self.cursor += 1 at the end of run_instruction.
Advance(m) == IF Stopped(m) THEN m ELSE [m EXCEPT !.ctx.cursor = @ + 1]

Record(m, calls) == [m EXCEPT !.builtin = @ \o calls]

\* The calls a Print instruction makes on the builtin: flush_print hands
\* over the values of the current block in the order they were pushed, then
\* PrintLine calls new_line, PrintWait calls new_line and then wait.
PrintCallsWaitFirst(values, newline, wait) ==
    [i \in 1..Len(values) |-> CallPrint(values[i])]
    \o (IF wait THEN <<CallWait, CallNewLine>>
        ELSE IF newline THEN <<CallNewLine>> ELSE <<>>)

PrintCalls(values, newline, wait) ==
    [i \in 1..Len(values) |-> CallPrint(values[i])]
    \o (IF wait THEN <<CallNewLine, CallWait>>
        ELSE IF newline THEN <<CallNewLine>> ELSE <<>>)

\* Print, PrintLine, PrintWait: flush_print drains the current block.
RunPrint(m, newline, wait) ==
    IF ~HasBlock(m) THEN Panic(m)
    ELSE Record([m EXCEPT !.ctx.stack[Len(m.ctx.stack)] = <<>>],
                PrintCalls(Top(m), newline, wait))

\* Mutant of BeforeCall: the current block is popped before the builtin runs.
BeforeCallPopped(m, name) ==
    Record(IF HasBlock(m)
           THEN [m EXCEPT !.ctx.stack = SubSeq(@, 1, Len(@) - 1)]
           ELSE m,
           <<CallRun(name)>>)

\* builtin.run(name, self): the builtin is run on the context as it is.
BeforeCall(m, name) == Record(m, <<CallRun(name)>>)

\* What follows the return of the builtin: self.stack.pop(), then the push
\* of the value it returned.
CallReturn(m, ret) ==
    LET popped == IF HasBlock(m)
                  THEN [m EXCEPT !.ctx.stack = SubSeq(@, 1, Len(@) - 1)]
                  ELSE m
    IN  IF ret = Absent THEN popped ELSE vm_push(popped, ret)

\* CallBuiltin: the builtin runs, the current block is popped off the stack
\* of blocks, what the builtin returned is pushed on the block below.
RunCallBuiltin(m, name, ret) == CallReturn(BeforeCall(m, name), ret)

RunConditional(m, insts) ==
    LET r == pop_ret(m, insts)
        l == pop_ret(r.m, insts)
        c == vm_pop(l.m)
    IN  IF Stopped(r.m) THEN r.m
        ELSE IF Stopped(l.m) THEN l.m
        ELSE IF Stopped(c.m) THEN c.m
        ELSE IF c.v = Absent THEN Panic(c.m)
        ELSE vm_push(c.m, IF into_bool(c.v) THEN l.v ELSE r.v)

\* Exit: the cursor is set past the last instruction.
RunExitAdvance(m, insts) == Advance(m)

RunExit(m, insts) == [m EXCEPT !.ctx.cursor = Len(insts)]

\* run_instruction, for the instructions Compiler::compile emits: ret is what
\* the builtin returns when it is called, build the kind of build that runs.
\* UnaryOperator and BinaryOperator are the Operator of context.rs,
\* TernaryOperator its Conditional, Print with its flags its Print,
\* PrintLine and PrintWait.
run_instruction(m, insts, inst, ret, build) ==
    CASE inst.op = "Exit" -> RunExit(m, insts)
      [] inst.op = "LoadInt" -> Advance(vm_push(m, IntValue(inst.arg)))
      [] inst.op = "LoadStr" -> Advance(vm_push(m, StrValue(inst.arg)))
      [] inst.op = "LoadVar" ->
            IF inst.arg \notin DOMAIN m.ctx.variables THEN Panic(m)
            ELSE Advance(vm_push(m, m.ctx.variables[inst.arg]))
      [] inst.op = "StoreVar" ->
            LET r == pop_ret(m, insts)
            IN  IF Stopped(r.m) THEN r.m
                ELSE Advance([r.m EXCEPT !.ctx.variables = Insert(@, inst.arg, r.v)])
      [] inst.op = "CallBuiltin" -> Advance(RunCallBuiltin(m, inst.arg, ret))
      [] inst.op \in {"UnaryOperator", "BinaryOperator"} ->
            Advance(run_operator(m, insts, inst.arg, build))
      [] inst.op = "TernaryOperator" -> Advance(RunConditional(m, insts))
      [] inst.op = "Goto" -> [m EXCEPT !.ctx.cursor = inst.arg]
      [] inst.op = "GotoIfNot" ->
            LET r == pop_ret(m, insts)
            IN  IF Stopped(r.m) THEN r.m
                ELSE IF ~into_bool(r.v) THEN [r.m EXCEPT !.ctx.cursor = inst.arg]
                ELSE Advance(r.m)
      [] inst.op = "Print" -> Advance(RunPrint(m, inst.newline, inst.wait))
      [] inst.op = "Nop" -> Advance(m)
      [] inst.op = "Pop" -> Advance(vm_pop(m).m)

(***************************************************************************)
(* The VM specification: a program is compiled and Context::run executes   *)
(* it, one run_instruction a step, against a builtin that records the      *)
(* calls it receives.                                                      *)
(***************************************************************************)
MaxSteps == 12       \* instructions one run executes
MaxVMProgram == 2    \* simple statements of a program the VM runs

\* What a builtin returns when it is run: None or Some(value).
RunReturns == {Absent, IntValue(1)}
Builds == {"debug", "release"}

PrintedValues ==
    {<<>>, <<Number(1), String(<<"s">>)>>, <<Variable(<<"x">>)>>,
     <<BuiltinFunc(<<"f">>, <<Number(1)>>)>>}

VMSimpleStmts ==
    {StmtExit(0),
     StmtAssign(<<"x">>, Number(1), 0),
     StmtAssign(<<"x">>, BinaryOp(Variable(<<"x">>), "Add", Number(1)), 0),
     StmtAssign(<<"x">>, BinaryOp(Number(U32 - 1), "Add", Number(1)), 0),
     StmtAssign(<<"y">>, BuiltinFunc(<<"f">>, <<Number(1), Number(2)>>), 0),
     StmtExpression(Number(7), 0),
     StmtExpression(BuiltinFunc(<<"f">>, <<Number(1)>>), 0),
     StmtExpression(BuiltinFunc(<<"g">>, <<>>), 0),
     StmtExpression(BinaryOp(Number(1), "Add", BuiltinFunc(<<"f">>, <<Number(2)>>)), 0),
     StmtExpression(TernaryOp(Number(0), String(<<"a">>), Number(3)), 0),
     StmtExpression(UnaryOp("Not", String(<<>>)), 0),
     StmtExpression(BinaryOp(String(<<"a">>), "Sub", Number(1)), 0),
     StmtExpression(BinaryOp(Number(1), "Div", Number(0)), 0),
     StmtExpression(BinaryOp(Number(1), "Add", Variable(<<"y">>)), 0)}
    \cup {StmtPrint(v, n, w, 0) : v \in PrintedValues, n \in BOOLEAN, w \in BOOLEAN}

VMControlPrograms ==
    {<<StmtAssign(<<"x">>, Number(0), 0),
       StmtWhile(BinaryOp(Variable(<<"x">>), "Less", Number(2)),
                 <<StmtPrint(<<Variable(<<"x">>)>>, FALSE, FALSE, 0),
                   StmtAssign(<<"x">>, BinaryOp(Variable(<<"x">>), "Add", Number(1)), 0)>>, 0),
       StmtPrint(<<String(<<"s">>)>>, TRUE, TRUE, 0)>>,
     <<StmtIf(<<Arm(Number(0), <<StmtPrint(<<Number(1)>>, TRUE, FALSE, 0)>>),
                Arm(String(<<"a">>), <<StmtPrint(<<Number(2)>>, FALSE, TRUE, 0)>>)>>,
              <<StmtPrint(<<Number(3)>>, FALSE, FALSE, 0)>>, 0),
       StmtExpression(Number(7), 0)>>,
     <<StmtWhile(Number(1), <<StmtExpression(Number(7), 0)>>, 0)>>}

\* Programs whose operators meet operands of either type, in a simple
\* statement after another one, in the conditions of the arms of an If and
\* in the condition of a While.
VMErrorPrograms ==
    {<<StmtExpression(Number(7), 0),
       StmtExpression(BinaryOp(Number(1), "Mul", String(<<"a">>)), 0)>>,
     <<StmtPrint(<<Number(1)>>, FALSE, FALSE, 0),
       StmtExpression(BinaryOp(String(<<"a">>), "Div", Number(1)), 0)>>,
     <<StmtAssign(<<"x">>, String(<<"s">>), 0),
       StmtExpression(BinaryOp(Variable(<<"x">>), "Rem", Number(2)), 0)>>,
     <<StmtExpression(Number(7), 0),
       StmtExpression(BinaryOp(String(<<"a">>), "Sub", String(<<"b">>)), 0)>>,
     <<StmtPrint(<<BinaryOp(Number(1), "Add", String(<<"s">>)),
                   BinaryOp(String(<<"s">>), "Add", Number(1))>>, TRUE, FALSE, 0),
       StmtPrint(<<BinaryOp(Number(2), "Sub", Number(1))>>, FALSE, FALSE, 0)>>,
     <<StmtIf(<<Arm(BinaryOp(Number(1), "Sub", Number(1)),
                    <<StmtExpression(Number(7), 0)>>),
                Arm(BinaryOp(String(<<"a">>), "Sub", Number(1)), <<>>)>>,
              <<>>, 0)>>,
     <<StmtIf(<<Arm(BinaryOp(Number(2), "Mul", String(<<"a">>)),
                    <<StmtExpression(Number(7), 0)>>)>>,
              <<>>, 0)>>,
     <<StmtExpression(Number(7), 0),
       StmtWhile(BinaryOp(String(<<"a">>), "Rem", Number(1)),
                 <<StmtExpression(Number(7), 0)>>, 0)>>,
     <<StmtPrint(<<Number(1)>>, FALSE, FALSE, 0),
       StmtPrint(<<Number(2), BinaryOp(String(<<"a">>), "Mul", Number(2))>>, TRUE, TRUE, 0),
       StmtExpression(BuiltinFunc(<<"f">>, <<>>), 0),
       StmtPrint(<<Number(3)>>, TRUE, FALSE, 0)>>}

\* Programs with an Exit inside an arm of an If, inside the body of a While
\* and inside both, each with statements after the Exit.
VMExitPrograms ==
    {<<StmtIf(<<Arm(Number(1), <<StmtPrint(<<Number(1)>>, FALSE, FALSE, 0),
                                 StmtExit(0),
                                 StmtPrint(<<Number(2)>>, TRUE, FALSE, 0)>>)>>,
              <<StmtPrint(<<Number(3)>>, FALSE, FALSE, 0)>>, 0),
       StmtPrint(<<Number(4)>>, FALSE, TRUE, 0)>>,
     <<StmtWhile(Number(1), <<StmtPrint(<<Number(1)>>, FALSE, FALSE, 0),
                              StmtExit(0),
                              StmtExpression(BuiltinFunc(<<"f">>, <<>>), 0)>>, 0),
       StmtPrint(<<Number(4)>>, FALSE, TRUE, 0)>>,
     <<StmtWhile(Number(1),
                 <<StmtIf(<<Arm(Number(1), <<StmtPrint(<<Number(1)>>, FALSE, FALSE, 0),
                                             StmtExit(0)>>)>>,
                          <<>>, 0),
                   StmtPrint(<<Number(2)>>, TRUE, FALSE, 0)>>, 0),
       StmtPrint(<<Number(3)>>, FALSE, TRUE, 0)>>}

VMPrograms ==
    {LocateBody(p, 1).v :
        p \in SeqsUpTo(VMSimpleStmts, MaxVMProgram) \cup VMControlPrograms
              \cup VMErrorPrograms \cup VMExitPrograms}

SimpleKinds == {"Exit", "Print", "Assign", "Expression"}

\* The number of values of every block of the stack, bottom block first.
Depth(m) == [i \in 1..Len(m.ctx.stack) |-> Len(m.ctx.stack[i])]

SimpleStarts == {l.start : l \in {k \in PlacedStmts : k.stmt.t \in SimpleKinds}}
SimpleAt(pos) == CHOOSE l \in PlacedStmts : l.stmt.t \in SimpleKinds /\ l.start = pos
LastOf(l) == l.start + StmtLen(l.stmt) - 1

NoStmt == [start |-> -1, depth |-> <<>>]
NoneDone == [start |-> -1, before |-> <<>>, after |-> <<>>]

\* The statement whose first instruction the VM is about to execute, with
\* the depth of the stack there.
Entry(m, old) ==
    IF m.ctx.status = "running" /\ m.ctx.cursor \in SimpleStarts
    THEN [start |-> m.ctx.cursor, depth |-> Depth(m)]
    ELSE old

InitVM ==
    /\ phase = "running"
    /\ ast \in VMPrograms
    /\ compiled = compile(ast)
    /\ vm = [ctx |-> RootContext, builtin |-> BuiltinNew]
    /\ steps = 0
    /\ hist = [entry |-> Entry([ctx |-> RootContext, builtin |-> BuiltinNew], NoStmt),
               done |-> NoneDone, last |-> Nop]
    /\ IdleInterner
    /\ IdleSerde
    /\ IdleFormatter
    /\ IdleIO

\* One turn of the loop of Context::run: the instruction under the cursor
\* is executed; an Err or an abort ends the run.
RunInstructionWithin(limit) ==
    /\ phase = "running"
    /\ vm.ctx.status = "running"
    /\ vm.ctx.cursor < Len(Out)
    /\ steps < limit
    /\ \E ret \in RunReturns, build \in Builds :
          LET inst == Out[vm.ctx.cursor + 1].inst
              next == run_instruction(vm, Out, inst, ret, build)
              cur == hist.entry
              finished ==
                  /\ cur.start >= 0
                  /\ vm.ctx.cursor = LastOf(SimpleAt(cur.start))
                  /\ next.ctx.status = "running"
          IN  /\ vm' = next
              /\ hist' = [entry |-> Entry(next, cur),
                          done |-> IF finished
                                   THEN [start |-> cur.start, before |-> cur.depth,
                                         after |-> Depth(next)]
                                   ELSE hist.done,
                          last |-> inst]
    /\ steps' = steps + 1
    /\ UNCHANGED <<phase, compilerVars, intern, serde, fmt, io>>

RunInstruction == RunInstructionWithin(MaxSteps)

\* The loop ends when the cursor has left the instruction vector.
RunReturn ==
    /\ phase = "running"
    /\ vm.ctx.status = "running"
    /\ vm.ctx.cursor >= Len(Out)
    /\ vm' = [vm EXCEPT !.ctx.status = "done"]
    /\ UNCHANGED <<phase, compilerVars, steps, hist, intern, serde, fmt, io>>

NextVM == RunInstruction \/ RunReturn

SpecVM == InitVM /\ [][NextVM]_vars

\* The VM is inside the code of the simple statement it entered last.
InStmt ==
    /\ phase = "running"
    /\ hist.entry.start >= 0
    /\ vm.ctx.cursor \in hist.entry.start..LastOf(SimpleAt(hist.entry.start))

\* When the last instruction of a simple statement has executed, every
\* block holds as many values as before the first one.
Finished ==
    (phase = "running" /\ hist.done.start >= 0) => hist.done.after = hist.done.before

\* While a simple statement executes, the blocks it found are still there.
Kept ==
    (InStmt /\ vm.ctx.status = "running")
        => Len(vm.ctx.stack) >= Len(hist.entry.depth)

PrintStep ==
    /\ phase = "running"
    /\ steps' = steps + 1
    /\ Out[vm.ctx.cursor + 1].inst.op = "Print"
    /\ vm'.ctx.status = "running"

C10_PrintOrder ==
    [][PrintStep =>
        LET inst == Out[vm.ctx.cursor + 1].inst
            values == Top(vm)
            n == Len(values)
            calls == SubSeq(vm'.builtin, Len(vm.builtin) + 1, Len(vm'.builtin))
            lines == IF inst.newline \/ inst.wait THEN 1 ELSE 0
            waits == IF inst.wait THEN 1 ELSE 0
        IN  /\ Len(calls) = n + lines + waits
            /\ \A k \in 1..n : calls[k] = CallPrint(values[k])
            /\ lines = 1 => calls[n + 1] = CallNewLine
            /\ waits = 1 => calls[n + 2] = CallWait
            /\ Top(vm') = <<>>
            /\ SubSeq(vm'.builtin, 1, Len(vm.builtin)) = vm.builtin]_vars

\* A Print with wait set and newline not set has executed on a stack of two
\* values.
C10_Witness ==
    /\ phase = "running"
    /\ vm.ctx.status = "running"
    /\ hist.last = PrintInst(FALSE, TRUE)
    /\ vm.builtin = <<CallPrint(IntValue(1)), CallPrint(StrValue(<<"s">>)),
                      CallNewLine, CallWait>>
    /\ Top(vm) = <<>>

(***************************************************************************)
(* The interner (interner.rs).  A Symbol is a NonZeroU32, modelled         *)
(* SymbolBits wide; an index is a usize, wider than a Symbol.  The         *)
(* Interner is the StringInterner of the string_interner crate over that   *)
(* Symbol: the strings it holds, by index.                                 *)
(***************************************************************************)
SymbolBits == 2
SymbolU32 == 2 ^ SymbolBits

\* Option: None, Some(x).
None == {}
Some(x) == {x}
Unwrap(o) == CHOOSE x \in o : TRUE

\* NonZeroU32::new((index as u32).wrapping_add(1))
TryFromUsizeNarrow(index) == Some((index % 2) + 1)

try_from_usize(index) ==
    LET x == ((index % SymbolU32) + 1) % SymbolU32
    IN  IF x = 0 THEN None ELSE Some(x)

to_usize(symbol) == symbol - 1

Symbols == 1..(SymbolU32 - 1)

InternerNew == [strings |-> <<>>, panicked |-> FALSE]

\* The strings handed to the interner: one more than there are Symbols.
InternNames == {<<"a">>} \cup {<<"b">> \o Digits(i) : i \in Symbols}

\* get_or_intern is [interner, symbol]: a string the interner holds keeps
\* the symbol it got; a new one gets the symbol of the next index, and the
\* call aborts when there is none.
get_or_intern(it, s) ==
    IF \E i \in 1..Len(it.strings) : it.strings[i] = s
    THEN [interner |-> it,
          symbol |-> try_from_usize((CHOOSE i \in 1..Len(it.strings) :
                                        it.strings[i] = s) - 1)]
    ELSE LET symbol == try_from_usize(Len(it.strings))
         IN  IF symbol = None
             THEN [interner |-> [it EXCEPT !.panicked = TRUE], symbol |-> None]
             ELSE [interner |-> [it EXCEPT !.strings = Append(@, s)],
                   symbol |-> symbol]

resolve(it, symbol) ==
    IF to_usize(symbol) < Len(it.strings)
    THEN Some(it.strings[to_usize(symbol) + 1])
    ELSE None

InitInterner ==
    /\ phase = "interning"
    /\ intern = [interner |-> InternerNew, last |-> [call |-> "new", arg |-> None, ret |-> None],
                issued |-> {}]
    /\ IdleCompiler
    /\ IdleVM
    /\ IdleSerde
    /\ IdleFormatter
    /\ IdleIO

\* The interner grows by the strings it has not seen; a call that leaves it
\* as it is (a string it holds, a resolve) is followed to its result.
GetOrIntern ==
    /\ phase = "interning"
    /\ ~intern.interner.panicked
    /\ \E s \in InternNames :
          LET r == get_or_intern(intern.interner, s)
          IN  /\ intern' = [interner |-> r.interner,
                            last |-> [call |-> "get_or_intern", arg |-> Some(s),
                                      ret |-> r.symbol],
                            issued |-> intern.issued
                                           \cup {<<s, k>> : k \in r.symbol}]
              /\ phase' = IF r.interner = intern.interner THEN "looked up"
                          ELSE "interning"
    /\ UNCHANGED <<compilerVars, vmVars, serde, fmt, io>>

Resolve ==
    /\ phase = "interning"
    /\ ~intern.interner.panicked
    /\ \E k \in Symbols :
          intern' = [intern EXCEPT
                        !.last = [call |-> "resolve", arg |-> Some(k),
                                  ret |-> resolve(intern.interner, k)]]
    /\ phase' = "looked up"
    /\ UNCHANGED <<compilerVars, vmVars, serde, fmt, io>>

NextInterner == GetOrIntern \/ Resolve

SpecInterner == InitInterner /\ [][NextInterner]_vars

(***************************************************************************)
(* C9.  What get_or_intern returned for a string resolves to that string;  *)
(* every symbol the interner issued resolves to a string that              *)
(* get_or_intern maps back to that symbol, as long as the interner lives;  *)
(* and the conversion of an index to a Symbol (index + 1 as a non-zero     *)
(* value of the Symbol's width) with its inverse never gives two issued    *)
(* indices the same Symbol.                                                *)
(***************************************************************************)
C9_InternerRoundTrip ==
    phase \in {"interning", "looked up"} =>
        LET it == intern.interner
        IN  /\ (intern.last.call = "get_or_intern" /\ intern.last.ret /= None)
                  => resolve(it, Unwrap(intern.last.ret)) = intern.last.arg
            /\ \A p \in intern.issued :
                  /\ resolve(it, p[2]) = Some(p[1])
                  /\ get_or_intern(it, Unwrap(resolve(it, p[2])))
                        = [interner |-> it, symbol |-> Some(p[2])]
            /\ \A i, j \in 0..(Len(it.strings) - 1) :
                  /\ try_from_usize(i) /= None
                  /\ to_usize(Unwrap(try_from_usize(i))) = i
                  /\ i /= j => try_from_usize(i) /= try_from_usize(j)

\* Every Symbol there is has been issued, a string known already was
\* interned again, and the interner holds the strings of all of them.
C9_Witness ==
    /\ phase = "looked up"
    /\ {p[2] : p \in intern.issued} = Symbols
    /\ Len(intern.interner.strings) = SymbolU32 - 1
    /\ intern.last.call = "get_or_intern"
    /\ intern.last.ret = Some(1)

(***************************************************************************)
(* Program (program.rs) and its serialization.  A Program is the interner  *)
(* with the instruction vector; the names and strings of its instructions  *)
(* are Symbols of the interner.  bincode writes a value as a sequence of   *)
(* words: an integer as itself, a bool as 0 or 1, an enum as the index of  *)
(* its variant followed by the fields, a struct as its fields in order, a  *)
(* Vec and a string as their length followed by their elements.            *)
(***************************************************************************)
IndexOf(seq, x) == CHOOSE i \in 1..Len(seq) : seq[i] = x

InstructionTags ==
    <<"Nop", "Exit", "Pop", "Duplicate", "LoadInt", "LoadStr", "LoadVar", "StoreVar",
      "CallBuiltin", "Print", "BinaryOperator", "UnaryOperator", "TernaryOperator",
      "Goto", "GotoIfNot">>

OperatorTags ==
    [UnaryOperator |-> <<"Not">>,
     BinaryOperator |-> <<"Add", "Sub", "Div", "Mul", "Rem", "And", "Or", "Xor", "Equal",
                          "NotEqual", "Less", "LessOrEqual", "Greater", "GreaterOrEqual">>,
     TernaryOperator |-> <<"Conditional">>]

SymbolOps == {"LoadStr", "LoadVar", "StoreVar", "CallBuiltin"}
OperatorOps == {"UnaryOperator", "BinaryOperator", "TernaryOperator"}
IntOps == {"LoadInt", "Goto", "GotoIfNot"}

\* The parser interns the names and strings of the source as it meets
\* them; the instructions carry the Symbols.
RECURSIVE InternInstructions(_, _, _)
InternInstructions(it, insts, done) ==
    IF insts = <<>> \/ it.panicked THEN [interner |-> it, instructions |-> done]
    ELSE LET h == Head(insts)
         IN  IF h.inst.op \in SymbolOps
             THEN LET r == get_or_intern(it, h.inst.arg)
                  IN  InternInstructions(r.interner, Tail(insts),
                          IF r.symbol = None THEN done
                          ELSE Append(done, [h EXCEPT !.inst.arg = Unwrap(r.symbol)]))
             ELSE InternInstructions(it, Tail(insts), Append(done, h))

from_ast(program) == InternInstructions(InternerNew, compile(program).out, <<>>)

SerializeBool(b) == IF b THEN <<1>> ELSE <<0>>

SerializeInstruction(inst) ==
    <<IndexOf(InstructionTags, inst.op) - 1>>
    \o (CASE inst.op \in SymbolOps \cup IntOps -> <<inst.arg>>
          [] inst.op \in OperatorOps -> <<IndexOf(OperatorTags[inst.op], inst.arg) - 1>>
          [] inst.op = "Print" -> SerializeBool(inst.newline) \o SerializeBool(inst.wait)
          [] OTHER -> <<>>)

RECURSIVE SerializeInstructions(_)
SerializeInstructions(insts) ==
    IF insts = <<>> THEN <<>>
    ELSE SerializeInstruction(Head(insts).inst) \o <<Head(insts).location>>
         \o SerializeInstructions(Tail(insts))

SerializeStr(s) == <<Len(s)>> \o [i \in 1..Len(s) |-> CharCode(s[i])]

RECURSIVE SerializeStrs(_)
SerializeStrs(strings) ==
    IF strings = <<>> THEN <<>>
    ELSE SerializeStr(Head(strings)) \o SerializeStrs(Tail(strings))

SerializeInterner(it) == <<Len(it.strings)>> \o SerializeStrs(it.strings)

SerializeProgramWithoutInterner(p) ==
    <<Len(p.instructions)>> \o SerializeInstructions(p.instructions)

SerializeProgram(p) ==
    SerializeInterner(p.interner)
    \o <<Len(p.instructions)>> \o SerializeInstructions(p.instructions)

\* Reading is [ok, v, pos]: the value read and the position after it, or a
\* failure.
ReadFail == [ok |-> FALSE, v |-> <<>>, pos |-> 0]
Read(v, pos) == [ok |-> TRUE, v |-> v, pos |-> pos]

ReadWord(bytes, pos, allowed) ==
    IF pos <= Len(bytes) /\ bytes[pos] \in allowed THEN Read(bytes[pos], pos + 1)
    ELSE ReadFail

Words == 0..(U32 - 1)

DeserializeInstruction(bytes, pos) ==
    LET tag == ReadWord(bytes, pos, 0..(Len(InstructionTags) - 1))
        op == InstructionTags[tag.v + 1]
        symbol == ReadWord(bytes, tag.pos, Symbols)
        int == ReadWord(bytes, tag.pos, Words)
        operator == ReadWord(bytes, tag.pos, 0..(Len(OperatorTags[op]) - 1))
        newline == ReadWord(bytes, tag.pos, {0, 1})
        wait == ReadWord(bytes, newline.pos, {0, 1})
    IN  IF ~tag.ok THEN ReadFail
        ELSE CASE op \in SymbolOps ->
                    IF symbol.ok THEN Read([op |-> op, arg |-> symbol.v], symbol.pos)
                    ELSE ReadFail
               [] op \in IntOps ->
                    IF int.ok THEN Read([op |-> op, arg |-> int.v], int.pos)
                    ELSE ReadFail
               [] op \in OperatorOps ->
                    IF operator.ok
                    THEN Read([op |-> op, arg |-> OperatorTags[op][operator.v + 1]],
                              operator.pos)
                    ELSE ReadFail
               [] op = "Print" ->
                    IF newline.ok /\ wait.ok
                    THEN Read(PrintInst(newline.v = 1, wait.v = 1), wait.pos)
                    ELSE ReadFail
               [] OTHER -> Read([op |-> op], tag.pos)

RECURSIVE DeserializeInstructions(_, _, _, _)
DeserializeInstructions(bytes, pos, n, done) ==
    IF n = 0 THEN Read(done, pos)
    ELSE LET inst == DeserializeInstruction(bytes, pos)
             location == ReadWord(bytes, inst.pos, Words)
         IN  IF ~inst.ok \/ ~location.ok THEN ReadFail
             ELSE DeserializeInstructions(bytes, location.pos, n - 1,
                      Append(done, [inst |-> inst.v, location |-> location.v]))

RECURSIVE DeserializeStr(_, _, _, _)
DeserializeStr(bytes, pos, n, done) ==
    IF n = 0 THEN Read(done, pos)
    ELSE LET ch == ReadWord(bytes, pos, 1..Len(CharOrder))
         IN  IF ~ch.ok THEN ReadFail
             ELSE DeserializeStr(bytes, ch.pos, n - 1, Append(done, CharOrder[ch.v]))

\* The interner is rebuilt by interning the strings in the order they were
\* written.
RECURSIVE DeserializeStrs(_, _, _, _)
DeserializeStrs(bytes, pos, n, it) ==
    IF n = 0 THEN Read(it, pos)
    ELSE LET len == ReadWord(bytes, pos, Words)
             str == DeserializeStr(bytes, len.pos, len.v, <<>>)
         IN  IF ~len.ok THEN ReadFail
             ELSE IF ~str.ok THEN ReadFail
             ELSE IF get_or_intern(it, str.v).symbol = None THEN ReadFail
             ELSE DeserializeStrs(bytes, str.pos, n - 1,
                                  get_or_intern(it, str.v).interner)

DeserializeInterner(bytes, pos) ==
    LET n == ReadWord(bytes, pos, Words)
    IN  IF ~n.ok THEN ReadFail ELSE DeserializeStrs(bytes, n.pos, n.v, InternerNew)

DeserializeProgram(bytes) ==
    LET interner == DeserializeInterner(bytes, 1)
        n == ReadWord(bytes, interner.pos, Words)
        instructions == DeserializeInstructions(bytes, n.pos, n.v, <<>>)
    IN  IF ~interner.ok THEN ReadFail
        ELSE IF ~n.ok THEN ReadFail
        ELSE IF ~instructions.ok THEN ReadFail
        ELSE Read([interner |-> interner.v, instructions |-> instructions.v],
                  instructions.pos)

(***************************************************************************)
(* The serialization specification: a Program is built from an AST,        *)
(* serialized and deserialized (program.rs, test_serde).                   *)
(***************************************************************************)
SerdePrograms ==
    {p \in {from_ast(a) : a \in VMPrograms} : ~p.interner.panicked}

InitSerde ==
    /\ phase = "built"
    /\ \E p \in SerdePrograms : serde = [program |-> p, bytes |-> <<>>, decoded |-> ReadFail]
    /\ IdleCompiler
    /\ IdleVM
    /\ IdleInterner
    /\ IdleFormatter
    /\ IdleIO

Serialize ==
    /\ phase = "built"
    /\ serde' = [serde EXCEPT !.bytes = SerializeProgram(serde.program)]
    /\ phase' = "serialized"
    /\ UNCHANGED <<compilerVars, vmVars, intern, fmt, io>>

Deserialize ==
    /\ phase = "serialized"
    /\ serde' = [serde EXCEPT !.decoded = DeserializeProgram(serde.bytes)]
    /\ phase' = "deserialized"
    /\ UNCHANGED <<compilerVars, vmVars, intern, fmt, io>>

NextSerde == Serialize \/ Deserialize

SpecSerde == InitSerde /\ [][NextSerde]_vars

(***************************************************************************)
(* C8.  Deserializing the bytes a Program was serialized to gives a        *)
(* Program equal to it: the same instructions with the same locations,     *)
(* and an interner in which every Symbol resolves to the string it         *)
(* resolved to before.                                                     *)
(***************************************************************************)
C8_SerdeRoundTrip ==
    phase = "deserialized" =>
        /\ serde.decoded.ok
        /\ serde.decoded.v = serde.program
        /\ serde.decoded.v.instructions = serde.program.instructions
        /\ \A k \in Symbols :
              resolve(serde.decoded.v.interner, k) = resolve(serde.program.interner, k)

\* A Program with two strings in its interner, a Print with a flag set and
\* an operator has gone through both conversions.
C8_Witness ==
    /\ phase = "deserialized"
    /\ Len(serde.program.interner.strings) >= 2
    /\ \E i \in 1..Len(serde.program.instructions) :
          /\ serde.program.instructions[i].inst.op = "Print"
          /\ serde.program.instructions[i].inst.wait
    /\ \E i \in 1..Len(serde.program.instructions) :
          serde.program.instructions[i].inst.op = "BinaryOperator"
    /\ \E i \in 1..Len(serde.program.instructions) :
          serde.program.instructions[i].inst.op = "CallBuiltin"
    /\ Len(serde.bytes) > Len(serde.program.instructions)

(***************************************************************************)
(* The lexer.  A source text is the sequence of its characters; a keyword  *)
(* is one element of it ("if", "elif", "else", "while", "exit" stand for   *)
(* the keywords of the language).  Lexing gives the tokens with their      *)
(* lines and the comments by line.                                         *)
(***************************************************************************)
KeywordTokens ==
    [if |-> "If", elif |-> "ElseIf", else |-> "Else", while |-> "While", exit |-> "Exit"]

DigitChars == {"0", "1", "2", "3", "4", "5", "6", "7", "8", "9"}
IdentChars == DigitChars \cup {"a", "b", "c", "f", "g", "s", "x", "y"}
PunctChars == {"{", "}", "(", ")", ";", ",", "?", ":"}

\* The operators, the longer ones first.
OperatorChars ==
    <<[text |-> <<"=", "=">>, t |-> "BinaryOp", v |-> "Equal"],
      [text |-> <<"!", "=">>, t |-> "BinaryOp", v |-> "NotEqual"],
      [text |-> <<"<", "=">>, t |-> "BinaryOp", v |-> "LessOrEqual"],
      [text |-> <<"@", "@">>, t |-> "Print", v |-> "PrintLine"],
      [text |-> <<"@", "!">>, t |-> "Print", v |-> "PrintWait"],
      [text |-> <<"<">>, t |-> "BinaryOp", v |-> "Less"],
      [text |-> <<"+">>, t |-> "BinaryOp", v |-> "Add"],
      [text |-> <<"-">>, t |-> "BinaryOp", v |-> "Sub"],
      [text |-> <<"*">>, t |-> "BinaryOp", v |-> "Mul"],
      [text |-> <<"!">>, t |-> "UnaryOp", v |-> "Not"],
      [text |-> <<"=">>, t |-> "Assign", v |-> "="],
      [text |-> <<"@">>, t |-> "Print", v |-> "Print"]>>

Token(t, v, line) == [t |-> t, v |-> v, line |-> line]

StartsWith(text, pos, word) ==
    /\ pos + Len(word) - 1 <= Len(text)
    /\ SubSeq(text, pos, pos + Len(word) - 1) = word

\* The first position from pos on whose character is not in chars.
RECURSIVE RunEnd(_, _, _)
RunEnd(text, pos, chars) ==
    IF pos > Len(text) \/ text[pos] \notin chars THEN pos
    ELSE RunEnd(text, pos + 1, chars)

\* The position of the next ch from pos on, Len(text) + 1 when there is none.
RECURSIVE Find(_, _, _)
Find(text, pos, ch) ==
    IF pos > Len(text) \/ text[pos] = ch THEN pos ELSE Find(text, pos + 1, ch)

Count(text, ch) == Cardinality({i \in 1..Len(text) : text[i] = ch})

\* The u32 a run of digits stands for, U32 when it does not fit.
RECURSIVE ParseU32(_, _)
ParseU32(digits, acc) ==
    IF digits = <<>> THEN acc
    ELSE LET n == acc * 10 + (CHOOSE d \in 0..9 : Digits(d) = <<Head(digits)>>)
         IN  IF n >= U32 THEN U32 ELSE ParseU32(Tail(digits), n)

LexFail == [ok |-> FALSE, tokens |-> <<>>, comments |-> <<>>]

RECURSIVE Lex(_, _, _, _, _)
Lex(text, pos, line, tokens, comments) ==
    IF pos > Len(text) THEN [ok |-> TRUE, tokens |-> tokens, comments |-> comments]
    ELSE LET ch == text[pos]
             ops == {i \in 1..Len(OperatorChars) :
                        StartsWith(text, pos, OperatorChars[i].text)}
             op == OperatorChars[CHOOSE i \in ops : \A j \in ops : i <= j]
             run == RunEnd(text, pos, IdentChars)
             name == RunEnd(text, pos + 1, IdentChars)
             close == Find(text, pos + 1, "'")
             eol == Find(text, pos, "\n")
             word == SubSeq(text, pos, run - 1)
         IN  CASE ch = "\n" -> Lex(text, pos + 1, line + 1, tokens, comments)
               [] ch = " " -> Lex(text, pos + 1, line, tokens, comments)
               [] ch = "#" ->
                    Lex(text, eol, line, tokens,
                        Append(comments,
                               [line |-> line, text |-> SubSeq(text, pos + 1, eol - 1)]))
               [] ch = "'" ->
                    IF close > Len(text) THEN LexFail
                    ELSE Lex(text, close + 1,
                             line + Count(SubSeq(text, pos + 1, close - 1), "\n"),
                             Append(tokens,
                                    Token("StrLit", SubSeq(text, pos + 1, close - 1), line)),
                             comments)
               [] ch = "$" ->
                    Lex(text, name, line,
                        Append(tokens, Token("Variable", SubSeq(text, pos + 1, name - 1), line)),
                        comments)
               [] ch \in DOMAIN KeywordTokens ->
                    Lex(text, pos + 1, line,
                        Append(tokens, Token(KeywordTokens[ch], ch, line)), comments)
               [] ch \in DigitChars ->
                    IF \E i \in 1..Len(word) : word[i] \notin DigitChars THEN LexFail
                    ELSE IF ParseU32(word, 0) = U32 THEN LexFail
                    ELSE Lex(text, run, line,
                             Append(tokens, Token("IntLit", ParseU32(word, 0), line)),
                             comments)
               [] ch \in IdentChars \ DigitChars ->
                    Lex(text, run, line, Append(tokens, Token("Builtin", word, line)),
                        comments)
               [] ch \in PunctChars ->
                    Lex(text, pos + 1, line, Append(tokens, Token("Punct", ch, line)),
                        comments)
               [] ops /= {} ->
                    Lex(text, pos + Len(op.text), line,
                        Append(tokens, Token(op.t, op.v, line)), comments)
               [] OTHER -> LexFail

(***************************************************************************)
(* The parser: recursive descent over the tokens.  Parsing is [ok, v,      *)
(* pos], the tree read and the position of the token after it.  The        *)
(* location of a statement is the line of its first token, the location    *)
(* of an arm the line of its keyword.  Parenthesized expressions are left  *)
(* out: the compiler of compiler.rs has no arm for them.                   *)
(***************************************************************************)
Peek(tokens, pos) == IF pos <= Len(tokens) THEN tokens[pos] ELSE Token("EOF", "", 0)
Is(tokens, pos, t, v) == Peek(tokens, pos).t = t /\ Peek(tokens, pos).v = v

\* The levels of the binary operators, the loosest first.
Precedence ==
    [Equal |-> 1, NotEqual |-> 1, LessOrEqual |-> 2, Less |-> 2, Add |-> 3, Sub |-> 3,
     Mul |-> 4]
TightestLevel == 4

RECURSIVE ParseExpr(_, _)
RECURSIVE ParseBinary(_, _, _)
RECURSIVE ParseBinaryRest(_, _, _)
RECURSIVE ParseUnary(_, _)
RECURSIVE ParseArgs(_, _, _)
RECURSIVE ParseValues(_, _, _)
RECURSIVE ParseStmt(_, _)
RECURSIVE ParseBody(_, _, _)
RECURSIVE ParseArms(_, _, _)

ParsePrimary(tokens, pos) ==
    LET tok == Peek(tokens, pos)
        Called(args) ==
            IF args.ok THEN Read(BuiltinFunc(tok.v, args.v), args.pos) ELSE ReadFail
    IN  CASE tok.t = "IntLit" -> Read(Number(tok.v), pos + 1)
          [] tok.t = "StrLit" -> Read(String(tok.v), pos + 1)
          [] tok.t = "Variable" -> Read(Variable(tok.v), pos + 1)
          [] tok.t = "Builtin" /\ Is(tokens, pos + 1, "Punct", "(") ->
                Called(ParseArgs(tokens, pos + 2, <<>>))
          [] OTHER -> ReadFail

\* The arguments of a call up to its ")": separated by ",", a last "," allowed.
ParseArgs(tokens, pos, done) ==
    LET AfterArg(arg) ==
            IF ~arg.ok THEN ReadFail
            ELSE IF Is(tokens, arg.pos, "Punct", ",")
            THEN ParseArgs(tokens, arg.pos + 1, Append(done, arg.v))
            ELSE IF Is(tokens, arg.pos, "Punct", ")")
            THEN Read(Append(done, arg.v), arg.pos + 1)
            ELSE ReadFail
    IN  IF Is(tokens, pos, "Punct", ")") THEN Read(done, pos + 1)
        ELSE AfterArg(ParseExpr(tokens, pos))

ParseUnary(tokens, pos) ==
    LET Negated(value) ==
            IF value.ok THEN Read(UnaryOp(Peek(tokens, pos).v, value.v), value.pos)
            ELSE ReadFail
    IN  IF Peek(tokens, pos).t = "UnaryOp" THEN Negated(ParseUnary(tokens, pos + 1))
        ELSE ParsePrimary(tokens, pos)

\* Left-associative: lhs is what was read so far at this level.
ParseBinaryRest(tokens, lhs, level) ==
    LET tok == Peek(tokens, lhs.pos)
        Joined(rhs) ==
            IF rhs.ok
            THEN ParseBinaryRest(tokens, Read(BinaryOp(lhs.v, tok.v, rhs.v), rhs.pos),
                                 level)
            ELSE ReadFail
    IN  IF ~lhs.ok THEN ReadFail
        ELSE IF tok.t = "BinaryOp" /\ Precedence[tok.v] = level
        THEN Joined(ParseBinary(tokens, lhs.pos + 1, level + 1))
        ELSE lhs

ParseBinary(tokens, pos, level) ==
    IF level > TightestLevel THEN ParseUnary(tokens, pos)
    ELSE ParseBinaryRest(tokens, ParseBinary(tokens, pos, level + 1), level)

ParseExpr(tokens, pos) ==
    LET Chosen(lhs, mhs, rhs) ==
            IF rhs.ok THEN Read(TernaryOp(lhs.v, mhs.v, rhs.v), rhs.pos) ELSE ReadFail
        Asked(lhs, mhs) ==
            IF mhs.ok /\ Is(tokens, mhs.pos, "Punct", ":")
            THEN Chosen(lhs, mhs, ParseExpr(tokens, mhs.pos + 1))
            ELSE ReadFail
        Tested(lhs) ==
            IF ~lhs.ok THEN ReadFail
            ELSE IF ~Is(tokens, lhs.pos, "Punct", "?") THEN lhs
            ELSE Asked(lhs, ParseExpr(tokens, lhs.pos + 1))
    IN  Tested(ParseBinary(tokens, pos, 1))

\* The values of a Print up to its ";".
ParseValues(tokens, pos, done) ==
    LET AfterValue(value) ==
            IF value.ok THEN ParseValues(tokens, value.pos, Append(done, value.v))
            ELSE ReadFail
    IN  IF Is(tokens, pos, "Punct", ";") THEN Read(done, pos + 1)
        ELSE AfterValue(ParseExpr(tokens, pos))

\* A block: "{", statements, "}".
ParseBlock(tokens, pos) ==
    LET Closed(body) ==
            IF body.ok /\ Is(tokens, body.pos, "Punct", "}")
            THEN Read(body.v, body.pos + 1)
            ELSE ReadFail
    IN  IF Is(tokens, pos, "Punct", "{") THEN Closed(ParseBody(tokens, pos + 1, <<>>))
        ELSE ReadFail

\* The statements up to a "}" or to the end of the tokens.
ParseBody(tokens, pos, done) ==
    LET AfterStmt(stmt) ==
            IF stmt.ok THEN ParseBody(tokens, stmt.pos, Append(done, stmt.v))
            ELSE ReadFail
    IN  IF pos > Len(tokens) \/ Is(tokens, pos, "Punct", "}") THEN Read(done, pos)
        ELSE AfterStmt(ParseStmt(tokens, pos))

\* The arms of an If from the keyword at pos on: [arms, other, other_location].
ParseArms(tokens, pos, arms) ==
    LET tok == Peek(tokens, pos)
        ArmBody(cond, body) ==
            IF body.ok
            THEN ParseArms(tokens, body.pos,
                     Append(arms, [cond |-> cond.v, body |-> body.v,
                                   location |-> tok.line]))
            ELSE ReadFail
        ArmCond(cond) ==
            IF cond.ok THEN ArmBody(cond, ParseBlock(tokens, cond.pos)) ELSE ReadFail
        ElseBody(other) ==
            IF other.ok
            THEN Read([arms |-> arms, other |-> other.v, other_location |-> tok.line],
                      other.pos)
            ELSE ReadFail
    IN  CASE tok.t \in {"If", "ElseIf"} -> ArmCond(ParseExpr(tokens, pos + 1))
          [] tok.t = "Else" -> ElseBody(ParseBlock(tokens, pos + 1))
          [] OTHER -> Read([arms |-> arms, other |-> <<>>, other_location |-> 0], pos)

ParseStmt(tokens, pos) ==
    LET tok == Peek(tokens, pos)
        Printed(values) ==
            IF values.ok
            THEN Read(StmtPrint(values.v, tok.v = "PrintLine", tok.v = "PrintWait",
                                tok.line), values.pos)
            ELSE ReadFail
        Assigned(value) ==
            IF value.ok /\ Is(tokens, value.pos, "Punct", ";")
            THEN Read(StmtAssign(tok.v, value.v, tok.line), value.pos + 1)
            ELSE ReadFail
        Branched(arms) ==
            IF arms.ok
            THEN Read([t |-> "If", arms |-> arms.v.arms, other |-> arms.v.other,
                       other_location |-> arms.v.other_location,
                       location |-> tok.line], arms.pos)
            ELSE ReadFail
        LoopBody(cond, body) ==
            IF body.ok THEN Read(StmtWhile(cond.v, body.v, tok.line), body.pos)
            ELSE ReadFail
        LoopCond(cond) ==
            IF cond.ok THEN LoopBody(cond, ParseBlock(tokens, cond.pos)) ELSE ReadFail
        Evaluated(expr) ==
            IF expr.ok /\ Is(tokens, expr.pos, "Punct", ";")
            THEN Read(StmtExpression(expr.v, tok.line), expr.pos + 1)
            ELSE ReadFail
    IN  CASE tok.t = "Exit" ->
                IF Is(tokens, pos + 1, "Punct", ";") THEN Read(StmtExit(tok.line), pos + 2)
                ELSE ReadFail
          [] tok.t = "Print" -> Printed(ParseValues(tokens, pos + 1, <<>>))
          [] tok.t = "Variable" /\ Peek(tokens, pos + 1).t = "Assign" ->
                Assigned(ParseExpr(tokens, pos + 2))
          [] tok.t = "If" -> Branched(ParseArms(tokens, pos, <<>>))
          [] tok.t = "While" -> LoopCond(ParseExpr(tokens, pos + 1))
          [] OTHER -> Evaluated(ParseExpr(tokens, pos))

\* parse_with_comments: [ok, program, comments].
parse_with_comments(text) ==
    LET Parsed(lexed, body) ==
            IF lexed.ok /\ body.ok /\ body.pos = Len(lexed.tokens) + 1
            THEN [ok |-> TRUE, program |-> body.v, comments |-> lexed.comments]
            ELSE [ok |-> FALSE, program |-> <<>>, comments |-> <<>>]
        Lexed(lexed) == Parsed(lexed, ParseBody(lexed.tokens, 1, <<>>))
    IN  Lexed(Lex(text, 1, 1, <<>>, <<>>))

(***************************************************************************)
(* The formatter.  IndentWriter writes the indentation of the current      *)
(* block before the first bytes of a line; every literal piece and every   *)
(* argument of a write!/writeln! reaches IndentWriter::write as a call of  *)
(* its own (io::Write::write_fmt hands each to write_all, which calls      *)
(* write while bytes are left, so never for an empty piece).               *)
(***************************************************************************)
INDENT == <<" ", " ", " ", " ">>

RECURSIVE Repeat(_, _)
Repeat(s, n) == IF n = 0 THEN <<>> ELSE s \o Repeat(s, n - 1)

IndentWriterNew == [out |-> <<>>, indent_writed |-> FALSE, block |-> 0]

push_block(o) == [o EXCEPT !.block = @ + 1]
pop_block(o) == [o EXCEPT !.block = @ - 1]

write(o, buf) ==
    [o EXCEPT !.out = (IF o.indent_writed THEN @ ELSE @ \o Repeat(INDENT, o.block)) \o buf,
              !.indent_writed = ~(\E i \in 1..Len(buf) : buf[i] = "\n")]

write_all(o, buf) == IF buf = <<>> THEN o ELSE write(o, buf)

\* write!(o, ...): the pieces in order.
RECURSIVE write_fmt(_, _)
write_fmt(o, pieces) ==
    IF pieces = <<>> THEN o ELSE write_fmt(write_all(o, Head(pieces)), Tail(pieces))

\* Operator::name: the text the lexer reads the operator from.
OperatorName(op) ==
    OperatorChars[CHOOSE i \in 1..Len(OperatorChars) : OperatorChars[i].v = op].text

\* ExprDisplay::fmt: the pieces it writes.
RECURSIVE ExprDisplay(_)
RECURSIVE ArgsDisplay(_)
ArgsDisplay(args) ==
    IF args = <<>> THEN <<>>
    ELSE ExprDisplay(Head(args))
         \o (IF Len(args) /= 1 THEN <<<<",", " ">>>> ELSE <<>>)
         \o ArgsDisplay(Tail(args))

ExprDisplay(expr) ==
    CASE expr.t = "Number" -> <<Digits(expr.num)>>
      [] expr.t = "String" -> <<<<"'">>, expr.str, <<"'">>>>
      [] expr.t = "Variable" -> <<<<"$">>, expr.var>>
      [] expr.t = "BuiltinFunc" ->
            <<expr.name, <<"(">>>> \o ArgsDisplay(expr.args) \o <<<<")">>>>
      [] expr.t = "BinaryOp" ->
            ExprDisplay(expr.lhs) \o <<<<" ">>, OperatorName(expr.op), <<" ">>>>
            \o ExprDisplay(expr.rhs)
      [] expr.t = "UnaryOp" -> <<OperatorName(expr.op)>> \o ExprDisplay(expr.value)
      [] expr.t = "TernaryOp" ->
            ExprDisplay(expr.lhs) \o <<<<" ">>, <<"?">>, <<" ">>>>
            \o ExprDisplay(expr.mhs) \o <<<<" ">>, <<":">>, <<" ">>>>
            \o ExprDisplay(expr.rhs)

\* A CodeFormatter is f = [o, last_location]; comments are those the lexer
\* collected, in the order of their lines.
CodeFormatterNew == [o |-> IndentWriterNew, last_location |-> 0]

\* comments.range(last_location..=new_location)
RangeThrough(f, comments, new_location) ==
    LET Inside(c) == f.last_location <= c.line /\ c.line <= new_location
    IN  SelectSeq(comments, Inside)

\* comments.range(last_location..new_location)
Range(f, comments, new_location) ==
    LET Inside(c) == f.last_location <= c.line /\ c.line < new_location
    IN  SelectSeq(comments, Inside)

RECURSIVE WriteComments(_, _)
WriteComments(o, comments) ==
    IF comments = <<>> THEN o
    ELSE WriteComments(write_fmt(o, <<<<"#">>, Head(comments).text, <<"\n">>>>),
                       Tail(comments))

write_comment(f, comments, new_location) ==
    [o |-> WriteComments(f.o, Range(f, comments, new_location)),
     last_location |-> new_location]

\* write_start_block_comment without the comments of the range.
WriteStartBlock(f, comments, blank, ident, new_location) ==
    [o |-> write_fmt(f.o, (IF blank THEN <<<<" ">>>> ELSE <<>>)
                          \o <<<<ident>>, <<" ">>>>),
     last_location |-> new_location]

write_start_block_comment(f, comments, blank, ident, new_location) ==
    LET found == Range(f, comments, new_location)
    IN  [o |-> IF found = <<>>
               THEN write_fmt(f.o, (IF blank THEN <<<<" ">>>> ELSE <<>>)
                                   \o <<<<ident>>, <<" ">>>>)
               ELSE write_fmt(WriteComments(write_all(f.o, <<"\n">>), found),
                              <<<<ident>>, <<" ">>>>),
         last_location |-> new_location]

is_block(stmt) == stmt.t \in {"If", "While"}

RECURSIVE write_stmt(_, _, _)
RECURSIVE write_stmts(_, _, _)
RECURSIVE write_arms(_, _, _, _)
RECURSIVE write_values(_, _)
RECURSIVE WriteValuesJoined(_, _)

\* The loop over the statements of a program or of a block.
write_stmts(f, comments, stmts) ==
    IF stmts = <<>> THEN f
    ELSE write_stmts(write_stmt(f, comments, Head(stmts)), comments, Tail(stmts))

write_stmt_block(f, comments, block) ==
    LET opened == [f EXCEPT !.o = push_block(write_all(@, <<"{", "\n">>))]
        written == write_stmts(opened, comments, block)
    IN  [written EXCEPT !.o = write_all(pop_block(@), <<"}">>)]

\* The loop over the arms of an If.
write_arms(f, comments, arms, first) ==
    IF arms = <<>> THEN f
    ELSE LET arm == Head(arms)
             started == IF first
                        THEN write_start_block_comment(f, comments, FALSE, "if",
                                                       arm.location)
                        ELSE write_start_block_comment(f, comments, TRUE, "elif",
                                                       arm.location)
             cond == [started EXCEPT
                         !.o = write_fmt(@, ExprDisplay(arm.cond) \o <<<<" ">>>>)]
         IN  write_arms(write_stmt_block(cond, comments, arm.body), comments,
                        Tail(arms), FALSE)

\* The loop over the values of a Print without the space between them.
WriteValuesJoined(o, values) ==
    IF values = <<>> THEN o
    ELSE WriteValuesJoined(write_fmt(o, ExprDisplay(Head(values))), Tail(values))

\* The loop over the values of a Print.
write_values(o, values) ==
    IF values = <<>> THEN o
    ELSE write_values(
             write_all(write_fmt(o, ExprDisplay(Head(values))),
                       IF Len(values) /= 1 THEN <<" ">> ELSE <<>>),
             Tail(values))

write_stmt(f, comments, stmt) ==
    LET line == [f EXCEPT !.o = IF is_block(stmt) THEN write_all(@, <<"\n">>) ELSE @]
        g == write_comment(line, comments, stmt.location)
        arms == write_arms(g, comments, stmt.arms, TRUE)
        other == IF stmt.other /= <<>>
                 THEN write_stmt_block(
                          write_start_block_comment(arms, comments, TRUE, "else",
                                                    stmt.other_location),
                          comments, stmt.other)
                 ELSE arms
        cond == [g EXCEPT !.o = write_fmt(@, <<<<"while", " ">>>> \o ExprDisplay(stmt.cond)
                                             \o <<<<" ">>>>)]
        prefix == IF stmt.wait THEN <<"@", "!">>
                  ELSE IF stmt.newline THEN <<"@", "@">>
                  ELSE <<"@">>
    IN  CASE stmt.t = "Assign" ->
                [g EXCEPT !.o = write_fmt(@, <<<<"$">>, stmt.var, <<" ", "=", " ">>>>
                                             \o ExprDisplay(stmt.value)
                                             \o <<<<";", "\n">>>>)]
          [] stmt.t = "Exit" -> [g EXCEPT !.o = write_fmt(@, <<<<"exit", ";", "\n">>>>)]
          [] stmt.t = "If" -> [other EXCEPT !.o = write_all(@, <<"\n", "\n">>)]
          [] stmt.t = "While" ->
                [write_stmt_block(cond, comments, stmt.body) EXCEPT
                    !.o = write_all(@, <<"\n", "\n">>)]
          [] stmt.t = "Print" ->
                [g EXCEPT !.o = write_fmt(write_values(write_all(@, prefix), stmt.values),
                                          <<<<";", "\n">>>>)]
          [] stmt.t = "Expression" ->
                [g EXCEPT !.o = write_fmt(@, ExprDisplay(stmt.expr) \o <<<<";", "\n">>>>)]

write_program(f, comments, program) == write_stmts(f, comments, program)

\* format_code_to_string: [ok, out]; a text that does not parse is an Err.
format_code_to_string(code) ==
    LET parsed == parse_with_comments(code)
    IN  IF parsed.ok
        THEN [ok |-> TRUE,
              out |-> write_program(CodeFormatterNew, parsed.comments, parsed.program).o.out]
        ELSE [ok |-> FALSE, out |-> <<>>]

(***************************************************************************)
(* The formatter specification: a source text is formatted, the result is  *)
(* formatted again, then the source and the formatted text are compiled    *)
(* and run, each against a recording builtin of its own (tests::work).     *)
(***************************************************************************)
MaxItems == 2    \* statements and comments of a program or of a block
MaxRun == 24     \* instructions one run executes

\* Context::run, at most fuel turns of its loop.
RECURSIVE run(_, _, _)
run(m, insts, fuel) ==
    IF Stopped(m) \/ m.ctx.cursor >= Len(insts) \/ fuel = 0 THEN m
    ELSE run(run_instruction(m, insts, insts[m.ctx.cursor + 1].inst, Absent, "debug"),
             insts, fuel - 1)

\* Program::from_source and Context::new(..).run(&mut RecordBuiltin::new()):
\* [ok, calls], the calls the builtin received.
RunSourceText(code) ==
    LET parsed == parse_with_comments(code)
        program == compile(parsed.program)
        ended == run([ctx |-> RootContext, builtin |-> BuiltinNew], program.out, MaxRun)
    IN  IF parsed.ok /\ ~program.panicked
        THEN [ok |-> TRUE, calls |-> ended.builtin]
        ELSE [ok |-> FALSE, calls |-> <<>>]

Items ==
    {<<"@", " ", "!", "1", ";">>,
     <<"@", "@", "1", " ", "'", "s", "'", ";">>,
     <<"@", "!", "$", "x", ";">>,
     <<"$", "x", "=", "1", "+", "2", "*", "3", ";", "\n">>,
     <<"f", "(", "1", ",", "2", ",", ")", ";">>,
     <<"@", "'", "a", "\n", "b", "'", ";">>,
     <<"exit", ";">>,
     <<"#", "c", "\n">>}

RECURSIVE Concat(_)
Concat(parts) == IF parts = <<>> THEN <<>> ELSE Head(parts) \o Concat(Tail(parts))

Bodies(n) == {Concat(parts) : parts \in SeqsUpTo(Items, n)}

Margins == {<<>>, <<"#", "c", "\n">>}

\* Texts whose comments differ by their letter and whose statements differ
\* by their number, with at most MaxComments comments: of a program, of an
\* If with its arms, of a While around an If.
MaxComments == 3

MaybeComment(x) == {<<>>, <<"#", x, "\n">>}
MaybeLine == {<<>>, <<"\n">>}

AfterIf ==
    {<<>>}
    \cup {c \o <<"elif", "8", "{", "@", "2", ";">> \o d \o <<"}">> \o e :
             c \in MaybeComment("c"), d \in MaybeComment("d"),
             e \in {<<>>, <<"else", "{", "@", "3", ";", "}">>, <<"@", "4", ";">>}}
    \cup {c \o <<"else", "{", "@", "3", ";">> \o d \o <<"}">> :
             c \in MaybeComment("c"), d \in MaybeComment("d")}
    \cup {c \o <<"@", "4", ";">> \o d :
             c \in MaybeComment("c"), d \in MaybeComment("d")}

CommentedTexts ==
    LET program ==
            {a \o s1 \o b \o nl \o s2 \o c :
                a \in MaybeComment("a"), s1 \in {<<>>, <<"@", "1", ";">>},
                b \in MaybeComment("b"), nl \in MaybeLine,
                s2 \in {<<>>, <<"@", "@", "2", ";">>}, c \in MaybeComment("c")}
        branch ==
            {a \o <<"if", "7", "{", "@", "1", ";">> \o nl \o b \o <<"}">> \o rest :
                a \in MaybeComment("a"), nl \in MaybeLine,
                b \in MaybeComment("b"), rest \in AfterIf}
        loop ==
            {<<"while", "7", "{">> \o a \o <<"if", "8", "{", "@", "1", ";">> \o b
             \o <<"}">> \o c \o <<"exit", ";">> \o d \o <<"}">> \o e :
                a \in MaybeComment("a"), b \in MaybeComment("b"),
                c \in MaybeComment("c"), d \in MaybeComment("d"),
                e \in {<<>>, <<"@", "2", ";">>, <<"#", "e", "\n">>}}
    IN  {t \in program \cup branch \cup loop : Count(t, "#") <= MaxComments}

SourceTexts ==
    CommentedTexts
    \cup Bodies(MaxItems)
    \cup {pre \o <<"if", "1", "{">> \o b \o <<"}">> \o post :
             b \in Bodies(MaxItems), pre \in Margins, post \in Margins}
    \cup {<<"if", "0", "{">> \o b1 \o <<"}", "elif", "1", "{">> \o b2 \o <<"}">>
          \o <<"else", "{">> \o b3 \o <<"}">> :
             b1 \in Bodies(1), b2 \in Bodies(1), b3 \in Bodies(1)}
    \cup {<<"while", "1", "{">> \o b \o <<"exit", ";", "}">> : b \in Bodies(MaxItems)}

NotYet == [ok |-> FALSE, out |-> <<>>]
NotRun == [ok |-> FALSE, calls |-> <<>>]

InitFormatter ==
    /\ phase = "source"
    /\ \E code \in {t \in SourceTexts : parse_with_comments(t).ok} :
          fmt = [code |-> code, formatted |-> NotYet, again |-> NotYet,
                 original |-> NotRun, reformatted |-> NotRun]
    /\ IdleCompiler
    /\ IdleVM
    /\ IdleInterner
    /\ IdleSerde
    /\ IdleIO

FormatCode ==
    /\ phase = "source"
    /\ fmt' = [fmt EXCEPT !.formatted = format_code_to_string(fmt.code)]
    /\ phase' = "formatted"
    /\ UNCHANGED <<compilerVars, vmVars, intern, serde, io>>

FormatAgain ==
    /\ phase = "formatted"
    /\ fmt.formatted.ok
    /\ fmt' = [fmt EXCEPT !.again = format_code_to_string(fmt.formatted.out)]
    /\ phase' = "formatted again"
    /\ UNCHANGED <<compilerVars, vmVars, intern, serde, io>>

RunOriginal ==
    /\ phase = "formatted again"
    /\ fmt' = [fmt EXCEPT !.original = RunSourceText(fmt.code)]
    /\ phase' = "original ran"
    /\ UNCHANGED <<compilerVars, vmVars, intern, serde, io>>

RunFormatted ==
    /\ phase = "original ran"
    /\ fmt' = [fmt EXCEPT !.reformatted = RunSourceText(fmt.formatted.out)]
    /\ phase' = "both ran"
    /\ UNCHANGED <<compilerVars, vmVars, intern, serde, io>>

NextFormatter == FormatCode \/ FormatAgain \/ RunOriginal \/ RunFormatted

SpecFormatter == InitFormatter /\ [][NextFormatter]_vars

SameCall(a, b) ==
    /\ a.call = b.call
    /\ CASE a.call = "print" -> a.arg.t = b.arg.t /\ a.arg.v = b.arg.v
         [] a.call = "run" -> a.arg = b.arg
         [] OTHER -> TRUE

SameCalls(x, y) == Len(x) = Len(y) /\ \A i \in 1..Len(x) : SameCall(x[i], y[i])

\* C6. For every source text that parses, the program compiled from the
\* source and the program compiled from the formatted source make the same
\* print, new_line, wait and run calls, in the same order, on the recording
\* builtin they run against.
C6_SemanticsPreserved ==
    phase = "both ran" =>
        /\ fmt.original.ok
        /\ fmt.reformatted.ok
        /\ SameCalls(fmt.original.calls, fmt.reformatted.calls)

\* C7. Formatting is idempotent: for every source text that parses, the
\* formatted text parses and formatting it again gives the same text, with
\* comments before, inside and after blocks too.
C7_FormatIdempotent ==
    phase \in {"formatted again", "original ran", "both ran"} =>
        /\ fmt.again.ok
        /\ fmt.again.out = fmt.formatted.out

(***************************************************************************)
(* Claims about the errors and the end of a run (SpecVM).                  *)
(***************************************************************************)
\* The statement whose code holds the instruction at pos: the innermost of
\* the statements whose code spans pos.
StmtsAround(pos) ==
    {l \in PlacedStmts : l.start <= pos /\ pos < l.start + StmtLen(l.stmt)}
StmtAround(pos) ==
    CHOOSE l \in StmtsAround(pos) : \A k \in StmtsAround(pos) : k.depth <= l.depth

\* The VM is about to execute a binary operator of ops.
OperatorStep(ops) ==
    /\ phase = "running"
    /\ steps' = steps + 1
    /\ Out[vm.ctx.cursor + 1].inst.op = "BinaryOperator"
    /\ Out[vm.ctx.cursor + 1].inst.arg \in ops
    /\ HasBlock(vm)

\* The operand the operator pops first is a Str, or it is an Int and the
\* one popped second is a Str.
PopsStr ==
    LET top == Top(vm)
        n == Len(top)
    IN  \/ n >= 1 /\ top[n].t = "Str"
        \/ n >= 2 /\ top[n].t = "Int" /\ top[n - 1].t = "Str"

\* One of the two operands is a Str, the other an Int.
MixedOperands ==
    LET top == Top(vm)
        n == Len(top)
    IN  n >= 2 /\ {top[n].t, top[n - 1].t} = {"Int", "Str"}

\* C11. When Sub, Mul, Div or Rem pops a Str operand the run ends with
\* TypeError("str", line), line the line of the statement that contains the
\* operator; an Add of a Str and an Int raises no error.
C11_TypeErrorLine ==
    [][/\ (OperatorStep({"Sub", "Mul", "Div", "Rem"}) /\ PopsStr) =>
            /\ vm'.ctx.status = "error"
            /\ vm'.ctx.err = TypeError("str", StmtAround(vm.ctx.cursor).stmt.location)
       /\ (OperatorStep({"Add"}) /\ MixedOperands) =>
            vm'.ctx.status = "running"]_vars

\* The VM is about to execute an instruction whose opcode is op.
StepOf(op) ==
    /\ phase = "running"
    /\ steps' = steps + 1
    /\ Out[vm.ctx.cursor + 1].inst.op = op

\* C14. An Exit that executes raises no error, leaves the cursor past the
\* last instruction and makes no call on the builtin; after it no further
\* instruction executes: the only step left is the return of run, with no
\* call on the builtin and the context as the Exit left it.  This holds for
\* an Exit inside an arm of an If and inside the body of a While too.
C14_ExitEnds ==
    [][/\ StepOf("Exit") =>
            /\ vm'.ctx.status = "running"
            /\ vm'.ctx.cursor = Len(Out)
            /\ vm'.builtin = vm.builtin
       /\ (phase = "running" /\ hist.last.op = "Exit") =>
            /\ steps' = steps
            /\ vm'.builtin = vm.builtin
            /\ vm' = [vm EXCEPT !.ctx.status = "done"]]_vars

\* run has returned after an Exit inside an arm of an If inside the body of
\* a While, with a print before it and statements after it.
C14_Witness ==
    /\ phase = "running"
    /\ vm.ctx.status = "done"
    /\ hist.last.op = "Exit"
    /\ ast[1].t = "While"
    /\ ast[1].body[1].t = "If"
    /\ SameCalls(vm.builtin, <<CallPrint(IntValue(1))>>)
    /\ vm.ctx.cursor = Len(Out)

\* C15. The step in which an instruction raises a RuntimeError leaves the
\* cursor on that instruction and makes no call on the builtin; once the
\* error is raised nothing changes any more: no instruction executes, the
\* failing one is neither retried nor skipped, and the builtin's record stays
\* as it was.
C15_ErrorEnds ==
    [][/\ (phase = "running" /\ vm.ctx.status = "running"
                /\ vm'.ctx.status = "error") =>
            /\ steps' = steps + 1
            /\ vm'.ctx.cursor = vm.ctx.cursor
            /\ vm'.builtin = vm.builtin
       /\ (phase = "running" /\ vm.ctx.status = "error") => FALSE]_vars

\* A Mul of a Str has failed in the second print of a program, after the
\* first print reached the builtin and with a builtin call and a print still
\* to come.
C15_Witness ==
    /\ phase = "running"
    /\ Len(ast) = 4
    /\ vm.ctx.status = "error"
    /\ vm.ctx.err.kind = "TypeError"
    /\ hist.last = BinaryOperator("Mul")
    /\ SameCalls(vm.builtin, <<CallPrint(IntValue(1))>>)
    /\ \E i \in (vm.ctx.cursor + 2)..Len(Out) : Out[i].inst.op = "CallBuiltin"
    /\ \E i \in (vm.ctx.cursor + 2)..Len(Out) : Out[i].inst.op = "Print"

(***************************************************************************)
(* The source specification: a source text is parsed and compiled          *)
(* (Program::from_source) and Context::run executes it, one                *)
(* run_instruction a step, to its end.                                     *)
(***************************************************************************)
MaxLoopSteps == 120    \* instructions the run of a source text executes

PrintMarkers == {<<"@">>, <<"@", "@">>, <<"@", "!">>}

\* `$0 = 1; while $0 < limit { <marker>$0; $0 = $0 + 1; } <marker>$0;`
LoopText(marker, limit) ==
    <<"$", "0", "=", "1", ";", "while", "$", "0", "<">> \o Digits(limit) \o <<"{">>
    \o marker \o <<"$", "0", ";", "$", "0", "=", "$", "0", "+", "1", ";", "}">>
    \o marker \o <<"$", "0", ";">>

\* `<marker>123 '123';`
PrintText(marker) == marker \o <<"1", "2", "3", " ", "'", "1", "2", "3", "'", ";">>

SourcePrograms ==
    {parse_with_comments(LoopText(marker, limit)).program :
        marker \in PrintMarkers, limit \in {3, 10}}
    \cup {parse_with_comments(PrintText(marker)).program : marker \in PrintMarkers}

InitSource ==
    /\ phase = "running"
    /\ ast \in SourcePrograms
    /\ compiled = compile(ast)
    /\ vm = [ctx |-> RootContext, builtin |-> BuiltinNew]
    /\ steps = 0
    /\ hist = [entry |-> Entry([ctx |-> RootContext, builtin |-> BuiltinNew], NoStmt),
               done |-> NoneDone, last |-> Nop]
    /\ IdleInterner
    /\ IdleSerde
    /\ IdleFormatter
    /\ IdleIO

RunSourceInstruction == RunInstructionWithin(MaxLoopSteps)

NextSource == RunSourceInstruction \/ RunReturn

SpecSource == InitSource /\ [][NextSource]_vars

LoopProgram(marker, limit) == parse_with_comments(LoopText(marker, limit)).program

\* What the builtin is called with after the values of a print statement
\* introduced by marker.
MarkerCalls(marker) ==
    IF marker = <<"@", "!">> THEN <<CallNewLine, CallWait>>
    ELSE IF marker = <<"@", "@">> THEN <<CallNewLine>>
    ELSE <<>>

\* print(from), after, print(from + 1), after, ..., print(to), after.
RECURSIVE CountCalls(_, _, _)
CountCalls(from, to, after) ==
    IF from > to THEN <<>>
    ELSE <<CallPrint(IntValue(from))>> \o after \o CountCalls(from + 1, to, after)

RunOf(program) == phase = "running" /\ ast = program
Ended == vm.ctx.status = "done"

PrintProgram(marker) == parse_with_comments(PrintText(marker)).program

\* C13. The print statement `@@123 '123';` compiles to the instructions of
\* its values in source order, LoadInt 123 and LoadStr "123", followed by
\* one Print{newline: true, wait: false}; its run ends without an error and
\* the builtin has then received print(123), print("123") and one new_line,
\* in this order, and nothing else.
C13_PrintLine ==
    RunOf(PrintProgram(<<"@", "@">>)) =>
        /\ Len(Out) = 3
        /\ Out[1].inst.op = "LoadInt" /\ Out[1].inst.arg = 123
        /\ Out[2].inst.op = "LoadStr" /\ Out[2].inst.arg = <<"1", "2", "3">>
        /\ Out[3].inst = PrintInst(TRUE, FALSE)
        /\ vm.ctx.status \in {"running", "done"}
        /\ Ended => SameCalls(vm.builtin,
                              <<CallPrint(IntValue(123)),
                                CallPrint(StrValue(<<"1", "2", "3">>)), CallNewLine>>)

\* The run of `@@123 '123';` has ended.
C13_Witness ==
    /\ RunOf(PrintProgram(<<"@", "@">>))
    /\ Ended
    /\ Len(vm.builtin) = 3
    /\ hist.last = PrintInst(TRUE, FALSE)

(***************************************************************************)
(* The builtin calls of a program: where push_expr puts the CallBuiltin of *)
(* every BuiltinFunc, after the code of its arguments, and how many        *)
(* arguments the call has.                                                 *)
(***************************************************************************)
RECURSIVE CallsIn(_, _)
RECURSIVE CallsInAll(_, _)
CallsInAll(exprs, start) ==
    IF exprs = <<>> THEN {}
    ELSE CallsIn(Head(exprs), start)
         \cup CallsInAll(Tail(exprs), start + ExprLen(Head(exprs)))

CallsIn(expr, start) ==
    CASE expr.t \in {"Number", "String", "Variable"} -> {}
      [] expr.t = "BuiltinFunc" ->
            CallsInAll(expr.args, start)
            \cup {[at |-> start + ExprsLen(expr.args), args |-> Len(expr.args),
                   name |-> expr.name]}
      [] expr.t = "UnaryOp" -> CallsIn(expr.value, start)
      [] expr.t = "BinaryOp" -> CallsInAll(<<expr.lhs, expr.rhs>>, start)
      [] expr.t = "TernaryOp" -> CallsInAll(<<expr.lhs, expr.mhs, expr.rhs>>, start)

StmtCalls(l) ==
    CASE l.stmt.t = "Exit" -> {}
      [] l.stmt.t = "Print" -> CallsInAll(l.stmt.values, l.start)
      [] l.stmt.t = "Assign" -> CallsIn(l.stmt.value, l.start)
      [] l.stmt.t = "Expression" -> CallsIn(l.stmt.expr, l.start)
      [] l.stmt.t = "If" ->
            UNION {CallsIn(l.stmt.arms[i].cond, ArmStart(l.stmt, l.start, i)) :
                      i \in 1..Len(l.stmt.arms)}
      [] l.stmt.t = "While" -> CallsIn(l.stmt.cond, l.start)

PlacedCalls == UNION {StmtCalls(l) : l \in PlacedStmts}
CallAt(pos) == CHOOSE c \in PlacedCalls : c.at = pos

\* The VM is about to execute the CallBuiltin of a call whose arguments lie
\* on the current block.
CallStep ==
    /\ StepOf("CallBuiltin")
    /\ HasBlock(vm)
    /\ Len(Top(vm)) >= CallAt(vm.ctx.cursor).args

\* The values of the current block below the arguments of the call.
BelowArgs == SubSeq(Top(vm), 1, Len(Top(vm)) - CallAt(vm.ctx.cursor).args)

\* C18. Executing CallBuiltin removes exactly the arguments of the call from
\* the stack and pushes exactly one value, what the builtin returned (none
\* when it returned None); the values pushed before the arguments stay
\* unchanged and in place.
C18_CallFrame ==
    [][CallStep =>
          /\ vm'.ctx.status = "running"
          /\ Len(vm'.ctx.stack) = Len(vm.ctx.stack)
          /\ Len(Top(vm')) \in {Len(BelowArgs), Len(BelowArgs) + 1}
          /\ SubSeq(Top(vm'), 1, Len(BelowArgs)) = BelowArgs]_vars

\* The If and While statements whose code ends the instruction vector.
EndingControl ==
    {l \in PlacedStmts :
        l.stmt.t \in {"If", "While"} /\ l.start + StmtLen(l.stmt) = Len(Out)}

\* C19 as stated: every Goto and GotoIfNot target is the index of an
\* existing instruction.
C19_TargetsExist ==
    Returned =>
        \A i \in 1..Len(Out) :
            IsJump(Out[i].inst) => Out[i].inst.arg \in 0..(Len(Out) - 1)

\* C19. Every Goto and GotoIfNot target is the index of an existing
\* instruction or, for a jump inside an If or While whose code ends the
\* instruction vector, the length of the vector: the position one past the
\* last instruction.
C19_TargetsExistOrEnd ==
    Returned =>
        \A i \in 1..Len(Out) :
            IsJump(Out[i].inst) =>
                \/ Out[i].inst.arg \in 0..(Len(Out) - 1)
                \/ /\ Out[i].inst.arg = Len(Out)
                   /\ \E l \in EndingControl : l.start < i

\* A returned program with an If that ends it, whose last arm jumps on a
\* false condition to an existing instruction (the else body) and past the
\* end after the arm's body.
C19_Witness ==
    /\ Returned
    /\ \E i, j \in 1..Len(Out) :
          /\ i < j
          /\ Out[i].inst.op = "GotoIfNot"
          /\ Out[i].inst.arg = j
          /\ Out[j].inst.op = "Goto"
          /\ Out[j].inst.arg = Len(Out)
          /\ j < Len(Out)


\* Compiler::compile has aborted.
Aborted == phase = "compiled" /\ compiled.panicked

\* C20. Compiler::compile returns an instruction vector for every AST and
\* never aborts, whatever the number of arms of an If and the depth of the
\* nesting of If and While.
C20_CompileReturns == ~Aborted

(***************************************************************************)
(* The host specification: the VM of a host that is handed the run at the  *)
(* two suspension points.  At a CallBuiltin the builtin is run and the VM  *)
(* awaits what it returns; at a Print with wait the values are printed,    *)
(* wait is called and the VM awaits the host.  While the VM awaits a       *)
(* builtin, the builtin may alter a variable through the context it was    *)
(* given.  The host resumes the VM with the value to push.  Every other    *)
(* instruction is one run_instruction of Context::run.                     *)
(***************************************************************************)
AwaitingBuiltin == "AwaitingBuiltin"
AwaitingPrintWait == "AwaitingPrintWait"
Awaiting(m) == m.ctx.status \in {AwaitingBuiltin, AwaitingPrintWait}

\* The variable a builtin alters and the value it gives it.
BuiltinVar == <<"x">>
BuiltinValue == IntValue(9)

SuspendsAt(inst) ==
    inst.op = "CallBuiltin" \/ (inst.op = "Print" /\ inst.wait)

InitHost ==
    /\ phase = "running"
    /\ ast \in VMPrograms
    /\ compiled = compile(ast)
    /\ vm = [ctx |-> RootContext, builtin |-> BuiltinNew]
    /\ steps = 0
    /\ hist = [at |-> RootContext, set |-> {}, resumed |-> Absent, last |-> Nop]
    /\ IdleInterner
    /\ IdleSerde
    /\ IdleFormatter
    /\ IdleIO

\* The instruction the VM is about to execute.
HostFetch(inst) ==
    /\ phase = "running"
    /\ vm.ctx.status = "running"
    /\ vm.ctx.cursor < Len(Out)
    /\ steps < MaxSteps
    /\ inst = Out[vm.ctx.cursor + 1].inst
    /\ steps' = steps + 1
    /\ UNCHANGED <<phase, compilerVars, intern, serde, fmt, io>>

HostStep ==
    \E inst \in {Out[i].inst : i \in 1..Len(Out)}, build \in Builds :
        /\ HostFetch(inst)
        /\ ~SuspendsAt(inst)
        /\ vm' = run_instruction(vm, Out, inst, Absent, build)
        /\ hist' = [hist EXCEPT !.last = inst]

\* CallBuiltin: the builtin is run; the VM awaits its return.
SuspendBuiltin ==
    \E inst \in {Out[i].inst : i \in 1..Len(Out)} :
        /\ HostFetch(inst)
        /\ inst.op = "CallBuiltin"
        /\ vm' = [BeforeCall(vm, inst.arg) EXCEPT !.ctx.status = AwaitingBuiltin]
        /\ hist' = [at |-> vm.ctx, set |-> {}, resumed |-> hist.resumed, last |-> inst]

\* Print with wait: the values are printed, new_line and wait are called;
\* the VM awaits the host.
SuspendPrintWait ==
    \E inst \in {Out[i].inst : i \in 1..Len(Out)} :
        /\ HostFetch(inst)
        /\ inst.op = "Print" /\ inst.wait
        /\ LET printed == RunPrint(vm, inst.newline, inst.wait)
               next == IF Stopped(printed) THEN printed
                       ELSE [printed EXCEPT !.ctx.status = AwaitingPrintWait]
           IN  /\ vm' = next
               /\ hist' = [at |-> printed.ctx, set |-> {}, resumed |-> hist.resumed,
                           last |-> inst]

\* The builtin that is running alters a variable through the context.
BuiltinSets ==
    /\ phase = "running"
    /\ vm.ctx.status = AwaitingBuiltin
    /\ hist.set = {}
    /\ vm' = [vm EXCEPT !.ctx.variables = Insert(@, BuiltinVar, BuiltinValue)]
    /\ hist' = [hist EXCEPT !.set = {BuiltinVar}]
    /\ UNCHANGED <<phase, compilerVars, steps, intern, serde, fmt, io>>

\* The host resumes the VM: after a builtin with what the builtin returned,
\* which CallBuiltin pushes; after a print-wait with nothing.
Resume ==
    /\ phase = "running"
    /\ Awaiting(vm)
    /\ \E value \in RunReturns :
          LET running == [vm EXCEPT !.ctx.status = "running"]
          IN  /\ vm.ctx.status = AwaitingPrintWait => value = Absent
              /\ vm' = IF vm.ctx.status = AwaitingBuiltin
                       THEN Advance(CallReturn(running, value))
                       ELSE Advance(running)
              /\ hist' = [hist EXCEPT !.resumed = value]
    /\ UNCHANGED <<phase, compilerVars, steps, intern, serde, fmt, io>>

NextHost ==
    \/ HostStep
    \/ SuspendBuiltin
    \/ SuspendPrintWait
    \/ BuiltinSets
    \/ Resume
    \/ RunReturn

SpecHost == InitHost /\ [][NextHost]_vars

\* The host resumes the VM.
ResumeStep == phase = "running" /\ Awaiting(vm) /\ ~Awaiting(vm')

C21_InstructionLocations ==
    Returned =>
        \A i \in 1..Len(Out) :
            Out[i].location = StmtAround(i - 1).stmt.location

(***************************************************************************)
(* The instruction specification: Context::run on instruction vectors      *)
(* given as such (Context::new takes any slice of instructions): up to     *)
(* MaxLoads loads, then the instructions under study, then at most one     *)
(* more load.  Instruction i is on line i.                                 *)
(***************************************************************************)
MaxLoads == 3    \* loads before the instructions under study

LoadInsts ==
    {LoadInt(0), LoadInt(1), LoadInt(2), LoadStr(<<>>), LoadStr(<<"a">>)}

\* The instructions under study after n loads; a GotoIfNot jumps over the
\* instruction that follows it.
StudiedInsts(n) ==
    {<<Pop>>, <<LoadVar(<<"x">>)>>, <<StoreVar(<<"x">>), LoadVar(<<"x">>)>>,
     <<StoreVar(<<"x">>), StoreVar(<<"x">>), LoadVar(<<"x">>)>>,
     <<StoreVar(<<"x">>), GotoIfNot(n + 3)>>,
     <<GotoIfNot(n + 2)>>}
    \cup {<<BinaryOperator(o)>> : o \in {"And", "Or", "Xor", "Div", "Rem"}}

OnLines(insts) == [i \in 1..Len(insts) |-> [location |-> i, inst |-> insts[i]]]

InstPrograms ==
    {OnLines(loads \o studied \o tail) :
        loads \in SeqsUpTo(LoadInsts, MaxLoads),
        studied \in UNION {StudiedInsts(n) : n \in 0..MaxLoads},
        tail \in {<<>>, <<LoadInt(7)>>}}

InitInst ==
    /\ phase = "running"
    /\ ast = <<>>
    /\ compiled \in {[out |-> p, location |-> 0, panicked |-> FALSE] : p \in InstPrograms}
    /\ vm = [ctx |-> RootContext, builtin |-> BuiltinNew]
    /\ steps = 0
    /\ hist = [entry |-> NoStmt, done |-> NoneDone, last |-> Nop]
    /\ IdleInterner
    /\ IdleSerde
    /\ IdleFormatter
    /\ IdleIO

SpecInst == InitInst /\ [][NextVM]_vars

\* The VM is about to execute an instruction op on a block that holds n
\* values.
StepOn(op, n) == StepOf(op) /\ HasBlock(vm) /\ Len(Top(vm)) = n

\* C22. Pop on an empty stack ends the run with the ExecutionError of a
\* missing argument and the line of the Pop; it never succeeds silently.
C22_PopOnEmpty ==
    [][StepOn("Pop", 0) =>
          /\ vm'.ctx.status = "error"
          /\ vm'.ctx.err.kind = "ExecutionError"
          /\ vm'.ctx.err.what = "pop"
          /\ vm'.ctx.err.line = Out[vm.ctx.cursor + 1].location]_vars

\* The instruction under the cursor.
Fetched == Out[vm.ctx.cursor + 1]

\* C23. LoadVar of a variable no StoreVar has stored ends the run with the
\* ExecutionError of a variable not found and the line of the instruction,
\* without an abort; StoreVar stores the value it pops, and LoadVar of a
\* stored variable pushes the value stored last.
C23_LoadVar ==
    [][/\ (StepOf("LoadVar") /\ HasBlock(vm)) =>
            IF Fetched.inst.arg \in DOMAIN vm.ctx.variables
            THEN /\ vm'.ctx.status = "running"
                 /\ Top(vm') = Append(Top(vm), vm.ctx.variables[Fetched.inst.arg])
            ELSE /\ vm'.ctx.status = "error"
                 /\ vm'.ctx.err.kind = "ExecutionError"
                 /\ vm'.ctx.err.what = "variable"
                 /\ vm'.ctx.err.line = Fetched.location
       /\ (StepOf("StoreVar") /\ HasBlock(vm) /\ Top(vm) /= <<>>) =>
            /\ vm'.ctx.status = "running"
            /\ vm'.ctx.variables[Fetched.inst.arg] = Top(vm)[Len(Top(vm))]]_vars

\* The VM is about to execute the binary operator o on two Int operands,
\* the right one (on top of the block) being r.
IntOperatorStep(o) ==
    /\ StepOf("BinaryOperator")
    /\ Fetched.inst.arg = o
    /\ HasBlock(vm)
    /\ Len(Top(vm)) >= 2
    /\ Top(vm)[Len(Top(vm))].t = "Int"
    /\ Top(vm)[Len(Top(vm)) - 1].t = "Int"

\* C24. Div or Rem of two Ints whose right operand is 0 ends the run with a
\* RuntimeError that carries the line of the instruction: the VM does not
\* abort and pushes no result.
C24_DivideByZero ==
    [][((IntOperatorStep("Div") \/ IntOperatorStep("Rem"))
            /\ Top(vm)[Len(Top(vm))].v = 0) =>
          /\ vm'.ctx.status = "error"
          /\ vm'.ctx.err.line = Fetched.location
          /\ Len(Top(vm')) < Len(Top(vm))]_vars

\* Int(0) and the empty string.
Falsy(v) == (v.t = "Int" /\ v.v = 0) \/ (v.t = "Str" /\ Len(v.v) = 0)

\* The current block without its top value, the blocks below as they are.
WithoutTop(m) == [m.ctx.stack EXCEPT ![Len(m.ctx.stack)] = SubSeq(@, 1, Len(@) - 1)]

\* C25. GotoIfNot(p) pops exactly one value; when that value is Int(0) or
\* the empty string the cursor becomes p, for every other value it advances
\* by one; the rest of the stack and the variables are unchanged.
C25_GotoIfNot ==
    [][(StepOf("GotoIfNot") /\ HasBlock(vm) /\ Top(vm) /= <<>>) =>
          /\ vm'.ctx.status = "running"
          /\ vm'.ctx.cursor = IF Falsy(Top(vm)[Len(Top(vm))])
                              THEN Fetched.inst.arg
                              ELSE vm.ctx.cursor + 1
          /\ vm'.ctx.stack = WithoutTop(vm)
          /\ vm'.ctx.variables = vm.ctx.variables
          /\ vm'.builtin = vm.builtin]_vars

\* GotoIfNot has popped the empty string and jumped over the instruction
\* that follows it, past the end; the value loaded first stays on the stack
\* and the variable stored before keeps its value.
C25_Witness ==
    /\ phase = "running"
    /\ ast = <<>>
    /\ Len(Out) = 6
    /\ Out[1].inst = LoadInt(2)
    /\ Out[2].inst = LoadStr(<<>>)
    /\ Out[4].inst = StoreVar(<<"x">>)
    /\ hist.last = GotoIfNot(6)
    /\ steps = 5
    /\ vm.ctx.cursor = 6
    /\ Top(vm) = <<IntValue(2)>>
    /\ DOMAIN vm.ctx.variables = {<<"x">>}

\* Truthiness as the claims state it: every value but Int(0) and the empty
\* string.
Truthy(v) == ~Falsy(v)

\* The boolean operation o on two truth values, as Int(1) or Int(0).
Truth(o, l, r) ==
    LET b == CASE o = "And" -> l /\ r
               [] o = "Or" -> l \/ r
               [] o = "Xor" -> (l /\ ~r) \/ (~l /\ r)
    IN  IF b THEN IntValue(1) ELSE IntValue(0)

\* The VM is about to execute And, Or or Xor on a block of two or more
\* values.
BoolOperatorStep ==
    /\ StepOf("BinaryOperator")
    /\ Fetched.inst.arg \in {"And", "Or", "Xor"}
    /\ HasBlock(vm)
    /\ Len(Top(vm)) >= 2

\* C26. And, Or and Xor pop two operands of any type and push Int(1) or
\* Int(0), the boolean operation on their truthiness (2 And 1 is Int(1),
\* not the bitwise 0); both operands are popped whatever the value of
\* either, and nothing else changes.
C26_BooleanOperators ==
    [][BoolOperatorStep =>
          LET top == Top(vm)
              n == Len(top)
          IN  /\ vm'.ctx.status = "running"
              /\ vm'.ctx.cursor = vm.ctx.cursor + 1
              /\ Top(vm') = Append(SubSeq(top, 1, n - 2),
                                   Truth(Fetched.inst.arg, Truthy(top[n - 1]),
                                         Truthy(top[n])))
              /\ vm'.ctx.variables = vm.ctx.variables
              /\ vm'.builtin = vm.builtin]_vars

\* And has been applied to Int(2) and Int(1), loaded above the string a:
\* the block holds the string and Int(1).
C26_Witness ==
    /\ phase = "running"
    /\ ast = <<>>
    /\ Len(Out) = 4
    /\ Out[2].inst = LoadInt(2)
    /\ Out[3].inst = LoadInt(1)
    /\ hist.last = BinaryOperator("And")
    /\ vm.ctx.cursor = 4
    /\ Top(vm) = <<StrValue(<<"a">>), IntValue(1)>>

(***************************************************************************)
(* The comments of a text and of its formatted text, as the lexer collects *)
(* them.                                                                   *)
(***************************************************************************)
SourceLex == Lex(fmt.code, 1, 1, <<>>, <<>>)
FormattedLex == Lex(fmt.formatted.out, 1, 1, <<>>, <<>>)
WasFormatted == phase /= "source" /\ fmt.formatted.ok

TextsOf(comments) == [i \in 1..Len(comments) |-> comments[i].text]

\* C27: every comment of the source appears exactly once in the formatted
\* output and the comments appear in their source order; none is dropped,
\* a comment after the last statement of the program or of a block included.
C27_CommentsKept ==
    phase /= "source" =>
        /\ fmt.formatted.ok
        /\ TextsOf(FormattedLex.comments) = TextsOf(SourceLex.comments)

(***************************************************************************)
(* Where the formatter writes a comment.  A statement, an arm or an else   *)
(* branch starts at the token after a ";", a "{" or a "}" that is not a    *)
(* "}" itself; an else branch without statements is not written and is    *)
(* no start.  The formatter keeps the starts in their order, so the k-th   *)
(* start of the formatted text is the k-th start of the source.            *)
(***************************************************************************)
IsPunct(tok, chars) == tok.t = "Punct" /\ tok.v \in chars

EmptyElse(tokens, i) ==
    /\ tokens[i].t = "Else"
    /\ i + 2 <= Len(tokens)
    /\ IsPunct(tokens[i + 2], {"}"})

StartsOf(tokens) ==
    {i \in 1..Len(tokens) :
        /\ ~IsPunct(tokens[i], {"}"})
        /\ ~EmptyElse(tokens, i)
        /\ i = 1 \/ IsPunct(tokens[i - 1], {";", "{", "}"})}

\* The lines of the starts, in their order.
StartLines(tokens) ==
    LET starts == StartsOf(tokens)
        Nth(k) == CHOOSE i \in starts : Cardinality({j \in starts : j <= i}) = k
    IN  [k \in 1..Cardinality(starts) |-> tokens[Nth(k)].line]

\* The comment i of the source is the comment j of the formatted text:
\* only a comment whose text no other comment has is told apart.
SameComment(source, written, i, j) ==
    /\ written[j].text = source[i].text
    /\ \A k \in 1..Len(source) : k /= i => source[k].text /= source[i].text

\* The pairs <<i, j>> of a comment of the source and the same comment in
\* the formatted text.
WrittenComments(source, written) ==
    {p \in (1..Len(source)) \X (1..Len(written)) :
        SameComment(source, written, p[1], p[2])}

\* The comment on line at of the formatted text stands immediately before
\* the start on line next: no token is on its line or between the two.
ImmediatelyBefore(tokens, at, next) ==
    \A t \in 1..Len(tokens) : tokens[t].line < at \/ next <= tokens[t].line

\* C28 as the spec states it: a comment is written immediately before the
\* first statement whose line is greater than or equal to the comment's
\* line, so a comment that shares its line with a statement is written
\* before that statement.
C28_CommentBeforeStatementOfItsLine ==
    WasFormatted =>
        LET source == SourceLex
            written == FormattedLex
            from == StartLines(source.tokens)
            to == StartLines(written.tokens)
        IN  /\ Len(from) = Len(to)
            /\ \A p \in WrittenComments(source.comments, written.comments) :
                  \A k \in 1..Len(from) :
                      (written.comments[p[2]].line < to[k])
                          <=> (source.comments[p[1]].line <= from[k])

\* C28, amended: a comment the formatter writes is written immediately
\* before the first statement, arm or else branch with statements that
\* starts on a line greater than the comment's line; a comment that shares
\* its line with a statement is written after that statement.
C28_CommentBeforeLaterStatement ==
    WasFormatted =>
        LET source == SourceLex
            written == FormattedLex
            from == StartLines(source.tokens)
            to == StartLines(written.tokens)
        IN  /\ Len(from) = Len(to)
            /\ \A p \in WrittenComments(source.comments, written.comments) :
                  /\ \A k \in 1..Len(from) :
                        (written.comments[p[2]].line < to[k])
                            <=> (source.comments[p[1]].line < from[k])
                  /\ \E k \in 1..Len(from) :
                        /\ source.comments[p[1]].line < from[k]
                        /\ ImmediatelyBefore(written.tokens,
                                             written.comments[p[2]].line, to[k])

\* A comment that shares its line with a statement has been written, and a
\* statement starts on a later line.
C28_Witness ==
    /\ WasFormatted
    /\ LET source == SourceLex
           from == StartLines(source.tokens)
       IN  \E p \in WrittenComments(source.comments, FormattedLex.comments) :
              /\ \E k \in 1..Len(from) : from[k] = source.comments[p[1]].line
              /\ \E k \in 1..Len(from) : from[k] > source.comments[p[1]].line

(***************************************************************************)
(* The comments at the end of a block: those from the line of the token    *)
(* before a "}" on, above the line of the "}".  The "}" of an else branch  *)
(* without statements is not written; the others keep their order.         *)
(***************************************************************************)
ClosesOf(tokens) ==
    {j \in 2..Len(tokens) :
        /\ IsPunct(tokens[j], {"}"})
        /\ ~(j > 2 /\ EmptyElse(tokens, j - 2))}

\* The line of the "}" of the formatted text that is the "}" j of the source.
WrittenClose(source, written, j) ==
    LET closes == ClosesOf(written)
        nth == Cardinality({k \in ClosesOf(source) : k <= j})
    IN  written[CHOOSE i \in closes : Cardinality({k \in closes : k <= i}) = nth].line

\* The pairs <<i, j>> of a comment i and the "}" j of the block it ends.
BlockEndComments(source) ==
    {p \in (1..Len(source.comments)) \X ClosesOf(source.tokens) :
        /\ ~IsPunct(source.tokens[p[2] - 1], {"{"})
        /\ source.tokens[p[2] - 1].line <= source.comments[p[1]].line
        /\ source.comments[p[1]].line < source.tokens[p[2]].line
        /\ \A k \in 1..Len(source.comments) :
              k /= p[1] => source.comments[k].text /= source.comments[p[1]].text}

\* Where the comment of the text is in the formatted text.
WrittenAs(source, written, i) ==
    {j \in 1..Len(written.comments) :
        written.comments[j].text = source.comments[i].text}

RECURSIVE PrintsIn(_)
RECURSIVE PrintsInArms(_)
PrintsInArms(arms) ==
    IF arms = <<>> THEN <<>>
    ELSE PrintsIn(Head(arms).body) \o PrintsInArms(Tail(arms))

PrintsIn(stmts) ==
    IF stmts = <<>> THEN <<>>
    ELSE LET stmt == Head(stmts)
         IN  (CASE stmt.t = "Print" -> <<stmt>>
                [] stmt.t = "If" -> PrintsInArms(stmt.arms) \o PrintsIn(stmt.other)
                [] stmt.t = "While" -> PrintsIn(stmt.body)
                [] OTHER -> <<>>)
             \o PrintsIn(Tail(stmts))

\* The values as ExprDisplay shows them, separated by single spaces.
RECURSIVE ValuesText(_)
ValuesText(values) ==
    IF values = <<>> THEN <<>>
    ELSE Concat(ExprDisplay(Head(values)))
         \o (IF Len(values) /= 1 THEN <<" ">> ELSE <<>>)
         \o ValuesText(Tail(values))

\* What the formatter writes for one statement that no comment precedes.
StmtText(stmt) == write_stmt(CodeFormatterNew, <<>>, stmt).o.out

Flags(stmt) == [newline |-> stmt.newline, wait |-> stmt.wait]

\* The flags of the Print statements of a text.
FlagsOf(text) ==
    LET prints == PrintsIn(parse_with_comments(text).program)
    IN  [k \in 1..Len(prints) |-> Flags(prints[k])]

BeginsWithNot(p) ==
    /\ ~p.wait
    /\ ~p.newline
    /\ ValuesText(p.values) /= <<>>
    /\ Head(ValuesText(p.values)) = "!"

MaxPairSteps == 8    \* instructions each VM of the pair executes

\* impl Builtin for &mut B: run, print and new_line call the method of B;
\* wait makes the future of B's wait and drops it, so B's wait never runs.
ByReference(call) == IF call.call = "wait" THEN <<>> ELSE <<call>>

RECURSIVE ThroughReference(_)
ThroughReference(calls) ==
    IF calls = <<>> THEN <<>>
    ELSE ByReference(Head(calls)) \o ThroughReference(Tail(calls))

\* One turn of the loop of Context::run on m, the builtin behind a mutable
\* reference when byref.
PairTurn(m, insts, byref) ==
    LET next == run_instruction(m, insts, insts[m.ctx.cursor + 1].inst, Absent, "debug")
        made == SubSeq(next.builtin, Len(m.builtin) + 1, Len(next.builtin))
    IN  IF byref THEN [next EXCEPT !.builtin = m.builtin \o ThroughReference(made)]
        ELSE next

PairPrograms ==
    {LocateBody(p, 1).v :
        p \in SeqsUpTo(VMSimpleStmts, 1) \cup VMControlPrograms
              \cup VMErrorPrograms \cup VMExitPrograms
              \cup {<<StmtAssign(<<"x">>, Number(1), 0),
                      StmtPrint(<<Variable(<<"x">>), String(<<"s">>)>>, TRUE, TRUE, 0),
                      StmtPrint(<<Number(2)>>, FALSE, FALSE, 0)>>}}

InitPair ==
    /\ phase = "running"
    /\ ast \in PairPrograms
    /\ compiled = compile(ast)
    /\ vm = <<[ctx |-> RootContext, builtin |-> BuiltinNew],
              [ctx |-> RootContext, builtin |-> BuiltinNew]>>
    /\ steps = 0
    /\ \E byref \in BOOLEAN : hist = [taken |-> <<0, 0>>, byref |-> <<FALSE, byref>>]
    /\ IdleInterner
    /\ IdleSerde
    /\ IdleFormatter
    /\ IdleIO

\* Mutant of PairStep: the two VMs run against one builtin.
PairStepShared(i) ==
    /\ phase = "running"
    /\ vm[i].ctx.status = "running"
    /\ vm[i].ctx.cursor < Len(Out)
    /\ hist.taken[i] < MaxPairSteps
    /\ LET next == PairTurn(vm[i], Out, hist.byref[i])
       IN  vm' = [k \in 1..2 |-> IF k = i THEN next
                                 ELSE [vm[k] EXCEPT !.builtin = next.builtin]]
    /\ hist' = [hist EXCEPT !.taken[i] = @ + 1]
    /\ steps' = steps + 1
    /\ UNCHANGED <<phase, compilerVars, intern, serde, fmt, io>>

\* VM i executes the instruction under its cursor.
PairStep(i) ==
    /\ phase = "running"
    /\ vm[i].ctx.status = "running"
    /\ vm[i].ctx.cursor < Len(Out)
    /\ hist.taken[i] < MaxPairSteps
    /\ vm' = [vm EXCEPT ![i] = PairTurn(vm[i], Out, hist.byref[i])]
    /\ hist' = [hist EXCEPT !.taken[i] = @ + 1]
    /\ steps' = steps + 1
    /\ UNCHANGED <<phase, compilerVars, intern, serde, fmt, io>>

\* The loop of VM i ends when its cursor has left the instruction vector.
PairReturn(i) ==
    /\ phase = "running"
    /\ vm[i].ctx.status = "running"
    /\ vm[i].ctx.cursor >= Len(Out)
    /\ vm' = [vm EXCEPT ![i].ctx.status = "done"]
    /\ UNCHANGED <<phase, compilerVars, steps, hist, intern, serde, fmt, io>>

NextPair == \E i \in 1..2 : PairStep(i) \/ PairReturn(i)

SpecPair == InitPair /\ [][NextPair]_vars

\* The VM that runs alone: the machine after n turns of its loop.
RECURSIVE Alone(_, _, _, _)
Alone(m, insts, byref, n) ==
    IF n = 0 \/ Stopped(m) \/ m.ctx.cursor >= Len(insts) THEN m
    ELSE Alone(PairTurn(m, insts, byref), insts, byref, n - 1)

\* The machines m and n are in the same state; a loop that has ended is
\* "done" in the pair.
SameMachine(m, n) ==
    /\ m.ctx.cursor = n.ctx.cursor
    /\ m.ctx.stack = n.ctx.stack
    /\ m.ctx.variables = n.ctx.variables
    /\ m.ctx.err = n.ctx.err
    /\ m.ctx.status = n.ctx.status \/ (m.ctx.status = "done" /\ n.ctx.status = "running")
    /\ SameCalls(m.builtin, n.builtin)

\* Each VM of the pair is the VM that runs alone for as many instructions.
AsAlone ==
    \A i \in 1..2 :
        SameMachine(vm[i],
                    Alone([ctx |-> RootContext, builtin |-> BuiltinNew], Out,
                          hist.byref[i], hist.taken[i]))

MaxRequests == 4    \* requests a client sends

Methods == {"textDocument/definition", "textDocument/hover"}

Request(id, method) == [kind |-> "Request", id |-> id, method |-> method]
Response(id) == [kind |-> "Response", id |-> id, method |-> ""]

InitLsp ==
    /\ phase = "serving"
    /\ io = [id |-> 0, toServer |-> <<>>, toClient |-> <<>>, stderr |-> <<>>,
             answered |-> {}, client |-> "running", server |-> "running"]
    /\ IdleCompiler
    /\ IdleVM
    /\ IdleInterner
    /\ IdleSerde
    /\ IdleFormatter

\* Client::send up to its loop: the request gets the next id and is sent.
ClientSend ==
    /\ io.client = "running"
    /\ io.id < MaxRequests
    /\ \E method \in Methods :
          io' = [io EXCEPT !.id = @ + 1,
                           !.toServer = Append(@, Request(io.id, method))]
    /\ UNCHANGED <<phase, compilerVars, vmVars, intern, serde, fmt>>

\* One turn of the loop of Client::send for a request that is unanswered:
\* recv_timeout gives the next message of the server, whose Response ends
\* the call; when none came within the second its Err is unwrapped, the
\* client aborts and its end of the connection is dropped.
ClientRecv ==
    /\ io.client = "running"
    /\ \E id \in 0..(io.id - 1) : id \notin io.answered
    /\ io' = IF io.toClient = <<>> THEN [io EXCEPT !.client = "aborted"]
             ELSE IF Head(io.toClient).kind = "Response"
             THEN [io EXCEPT !.toClient = Tail(@),
                             !.answered = @ \cup {Head(io.toClient).id}]
             ELSE [io EXCEPT !.toClient = Tail(@)]
    /\ UNCHANGED <<phase, compilerVars, vmVars, intern, serde, fmt>>

\* One turn of the loop of Server::run: the next message of the receiver is
\* written to stderr.
ServerRecv ==
    /\ io.server = "running"
    /\ io.toServer /= <<>>
    /\ io' = [io EXCEPT !.toServer = Tail(@),
                        !.stderr = Append(@, Head(io.toServer))]
    /\ UNCHANGED <<phase, compilerVars, vmVars, intern, serde, fmt>>

\* The loop of Server::run ends when the client's end is gone and no
\* message is left; run returns Ok.
ServerReturn ==
    /\ io.server = "running"
    /\ io.client = "aborted"
    /\ io.toServer = <<>>
    /\ io' = [io EXCEPT !.server = "returned"]
    /\ UNCHANGED <<phase, compilerVars, vmVars, intern, serde, fmt>>

NextLsp == ClientSend \/ ClientRecv \/ ServerRecv \/ ServerReturn

\* Both threads keep running: the server thread takes its turns, the
\* client's recv_timeout returns.
SpecLsp ==
    /\ InitLsp
    /\ [][NextLsp]_vars
    /\ WF_vars(ServerRecv)
    /\ WF_vars(ServerReturn)
    /\ WF_vars(ClientRecv)

\* C32: every request a client sends to a running server is eventually
\* answered by a Response whose id is the id of the request.
C32_RequestAnswered ==
    \A id \in 0..(MaxRequests - 1) : (io.id > id) ~> (id \in io.answered)

(***************************************************************************)
(* The lexer of the instruction-emitting parser (lexer.rs).  A source text *)
(* is a sequence of characters; the words 만약, 혹은, 그외, 선택, 종료, 반복 are *)
(* the characters "If", "ElseIf", "Else", "Select", "Exit", "Loop", the    *)
(* prefixes `[?]`, `[-]`, `[+]` and `[$` one character each.  A Lexer is   *)
(* [text, line]: the text still to read and the current line.              *)
(***************************************************************************)
KeywordChars == {"If", "ElseIf", "Else", "Select", "Exit", "Loop"}
LetterChars == {"a", "b", "f"}

is_ident_char(c) == c \in {"_"} \cup DigitChars \cup LetterChars

LexerNew(text) == [text |-> text, line |-> 1]

\* skip_ws: blanks are skipped, a newline adds one to line, a `;` skips to
\* the next newline, which is then read as a newline.
RECURSIVE skip_ws(_)
skip_ws(lx) ==
    IF lx.text = <<>> THEN lx
    ELSE LET b == Head(lx.text)
         IN  CASE b \in {" ", "\t", "\r"} -> skip_ws([lx EXCEPT !.text = Tail(@)])
               [] b = "\n" -> skip_ws([text |-> Tail(lx.text), line |-> lx.line + 1])
               [] b = ";" ->
                    skip_ws([lx EXCEPT !.text = SubSeq(@, Find(@, 2, "\n"), Len(@))])
               [] OTHER -> lx

InvalidCode(msg, line) == [kind |-> "InvalidCode", what |-> msg, line |-> line]
InvalidChar(ch, line) == [kind |-> "InvalidChar", what |-> ch, line |-> line]
UnexpectedToken(tok, line) == [kind |-> "UnexpectedToken", what |-> tok.t, line |-> line]
UnexpectedEndOfToken == [kind |-> "UnexpectedEndOfToken", what |-> "", line |-> 0]

Tok(t, v) == [t |-> t, v |-> v]
NoTok == Tok("None", <<>>)
NoErr == [kind |-> "None", what |-> "", line |-> 0]
\* The unwrap of the first character of an empty text aborts the program.
LexerAbort == [kind |-> "abort", what |-> "", line |-> 0]

\* What a read answers: the lexer after it and Ok(tok), Err(err) or, with
\* ok and tok = NoTok, None.
Got(lx, tok) == [lexer |-> lx, ok |-> TRUE, tok |-> tok, err |-> NoErr]
GotErr(lx, err) == [lexer |-> lx, ok |-> FALSE, tok |-> NoTok, err |-> err]

\* read_ident: the longest prefix of identifier characters.
read_ident(lx) ==
    LET pos == RunEnd(lx.text, 1, {"_"} \cup DigitChars \cup LetterChars)
    IN  [lexer |-> [lx EXCEPT !.text = SubSeq(@, pos, Len(@))],
         ident |-> SubSeq(lx.text, 1, pos - 1)]

\* read_str, after the opening quote: the text up to the next quote; the
\* line is left as it is.
read_str(lx) ==
    LET pos == Find(lx.text, 1, "'")
    IN  IF pos > Len(lx.text)
        THEN GotErr(lx, InvalidCode("String quote is not paired", lx.line))
        ELSE Got([lx EXCEPT !.text = SubSeq(@, pos + 1, Len(@))],
                  Tok("StrLit", SubSeq(lx.text, 1, pos - 1)))

try_read_keyword(lx) ==
    LET rest == [lx EXCEPT !.text = Tail(@)]
        c == Head(lx.text)
    IN  CASE c = "If" -> Got(rest, Tok("If", <<>>))
          [] c = "ElseIf" -> Got(rest, Tok("ElseIf", <<>>))
          [] c = "Else" -> Got(rest, Tok("Else", <<>>))
          [] c = "Select" -> Got(rest, Tok("Select", <<>>))
          [] c = "Exit" -> Got(rest, Tok("Exit", <<>>))
          [] c = "Loop" -> Got(rest, Tok("Loop", <<>>))
          [] c = "[?]" -> Got(rest, Tok("Conditional", <<>>))
          [] c = "[-]" -> Got(rest, Tok("Pop", <<>>))
          [] c = "[+]" -> Got(rest, Tok("Duplicate", <<>>))
          [] c = "[$" ->
                LET pos == Find(rest.text, 1, "]")
                IN  IF pos > Len(rest.text)
                    THEN GotErr(rest, InvalidCode("Assign bracket is not paired", lx.line))
                    ELSE Got([rest EXCEPT !.text = SubSeq(@, pos + 1, Len(@))],
                              Tok("Assign", SubSeq(rest.text, 1, pos - 1)))
          [] OTHER -> Got(lx, NoTok)

OperatorOf(c, eq) ==
    CASE c = "+" -> "Add" [] c = "-" -> "Sub" [] c = "*" -> "Mul"
      [] c = "/" -> "Div" [] c = "%" -> "Rem" [] c = "&" -> "And"
      [] c = "|" -> "Or" [] c = "^" -> "Xor" [] c = "=" -> "Equal"
      [] c = ">" -> IF eq THEN "GreaterOrEqual" ELSE "Greater"
      [] c = "<" -> IF eq THEN "LessOrEqual" ELSE "Less"
      [] c = "~" -> IF eq THEN "NotEqual" ELSE "Not"

OperatorBytes == {"+", "-", "*", "/", "%", "&", "|", "^", "=", ">", "<", "~"}

try_read_operator(lx) ==
    IF lx.text = <<>> \/ Head(lx.text) \notin OperatorBytes THEN Got(lx, NoTok)
    ELSE LET c == Head(lx.text)
             eq == c \in {">", "<", "~"} /\ Len(lx.text) >= 2 /\ lx.text[2] = "="
         IN  Got([lx EXCEPT !.text = SubSeq(@, IF eq THEN 3 ELSE 2, Len(@))],
                  Tok("Operator", OperatorOf(c, eq)))

\* read_next on a text that is not empty.  An error of try_read_keyword is
\* dropped and the reading goes on after the prefix it consumed.  The texts
\* read hold no `[!` and no parenthesis, which Parser::parse has no case for.
read_next(lx) ==
    LET k == try_read_keyword(lx)
        o == try_read_operator(k.lexer)
        i == read_ident(o.lexer)
        l == i.lexer
        rest == [l EXCEPT !.text = Tail(@)]
    IN  IF k.ok /\ k.tok /= NoTok THEN k
        ELSE IF o.tok /= NoTok THEN o
        ELSE IF i.ident /= <<>>
        THEN IF Head(i.ident) \in DigitChars
             THEN IF \A j \in 1..Len(i.ident) : i.ident[j] \in DigitChars
                        /\ ParseU32(i.ident, 0) < U32
                  THEN Got(l, Tok("IntLit", ParseU32(i.ident, 0)))
                  ELSE GotErr(l, InvalidCode("ident starts with a digit", l.line))
             ELSE IF i.ident = <<"_">> THEN Got(l, Tok("Underscore", <<>>))
             ELSE Got(l, Tok("Builtin", i.ident))
        ELSE IF l.text = <<>> THEN GotErr(l, LexerAbort)
        ELSE CASE Head(l.text) = "'" -> read_str(rest)
               [] Head(l.text) = "$" ->
                    LET v == read_ident(rest) IN Got(v.lexer, Tok("Variable", v.ident))
               [] Head(l.text) = "{" -> Got(rest, Tok("OpenBrace", <<>>))
               [] Head(l.text) = "}" -> Got(rest, Tok("CloseBrace", <<>>))
               [] Head(l.text) = "#" -> Got(rest, Tok("Sharp", <<>>))
               [] Head(l.text) = "@" -> Got(rest, Tok("At", <<>>))
               [] Head(l.text) = ":" -> Got(rest, Tok("Colon", <<>>))
               [] OTHER -> GotErr(l, InvalidChar(Head(l.text), l.line))

\* Iterator::next: skip_ws, then None at the end of the text, else read_next.
LexerNext(lx) ==
    LET s == skip_ws(lx)
    IN  IF s.text = <<>> THEN Got(s, NoTok) ELSE read_next(s)

(***************************************************************************)
(* The instruction-emitting parser (parser.rs).  A Parser is [lexer, ret,  *)
(* wait, blocks, status, err]: wait is wait_block_stack, blocks is         *)
(* block_stack of Parser::parse; status is "parsing", "ok" (parse returned *)
(* Ok(ret)), "err" (it returned Err(err)) or "abort" (the program          *)
(* aborted).  Positions are the indices of the code: ret[pos] of the code  *)
(* is ret[pos + 1] here.                                                   *)
(***************************************************************************)
StartBlock == [op |-> "StartBlock"]
EndBlock == [op |-> "EndBlock"]
Duplicate == [op |-> "Duplicate"]
LoadBuiltin(name) == [op |-> "LoadBuiltin", arg |-> name]
\* Instruction::Operator(op) and Instruction::Conditional are run as the
\* UnaryOperator, BinaryOperator and TernaryOperator of run_instruction.
OperatorInst(o) == IF o = "Not" THEN UnaryOperator(o) ELSE BinaryOperator(o)
Conditional == TernaryOperator("Conditional")

State(s, pos) == [s |-> s, pos |-> pos]
BlockState(b, x, y) == [b |-> b, x |-> x, y |-> y]

ParserNew(source) ==
    [lexer |-> LexerNew(source), ret |-> <<StartBlock>>, wait |-> <<>>,
     blocks |-> <<>>, status |-> "parsing", err |-> NoErr]

parser_push(p, inst) == [p EXCEPT !.ret = Append(@, inst)]
parser_next_pos(p) == Len(p.ret)
SetRet(p, pos, inst) == [p EXCEPT !.ret[pos + 1] = inst]
WaitPush(p, state) == [p EXCEPT !.wait = Append(@, state)]
BlockPush(p, block) == [p EXCEPT !.blocks = Append(@, block)]

ParserErr(p, err) ==
    IF err.kind = "abort" THEN [p EXCEPT !.status = "abort"]
    ELSE [p EXCEPT !.status = "err", !.err = err]
ParserAbort(p) == [p EXCEPT !.status = "abort"]
Parsing(p) == p.status = "parsing"

make_unexpected_token_err(p, tok) == UnexpectedToken(tok, p.lexer.line)

peek_next_is_close_brace(p) == LexerNext(p.lexer).tok.t = "CloseBrace"

\* try_strip_not_open_brace is [p, tok]: tok is NoTok for None; r is what
\* a copy of the lexer gives next.
StripNotOpenBrace(p, r) ==
    IF r.ok /\ r.tok /= NoTok /\ r.tok.t /= "OpenBrace"
    THEN [p |-> [p EXCEPT !.lexer = r.lexer], tok |-> r.tok]
    ELSE [p |-> p, tok |-> NoTok]

try_strip_not_open_brace(p) == StripNotOpenBrace(p, LexerNext(p.lexer))

\* try_strip_token_else_or_else_if is [p, some, state].
StripElse(p, r) ==
    IF r.tok.t = "Else"
    THEN [p |-> [p EXCEPT !.lexer = r.lexer], some |-> TRUE, state |-> State("Else", 0)]
    ELSE IF r.tok.t = "ElseIf"
    THEN [p |-> [p EXCEPT !.lexer = r.lexer], some |-> TRUE,
          state |-> State("ElseIf", parser_next_pos(p))]
    ELSE [p |-> p, some |-> FALSE, state |-> State("None", 0)]

try_strip_token_else_or_else_if(p) == StripElse(p, LexerNext(p.lexer))

\* expect_next_token is [p, tok]: p has stopped when there is no token.
Expected(p, r) ==
    IF ~r.ok THEN [p |-> ParserErr([p EXCEPT !.lexer = r.lexer], r.err), tok |-> NoTok]
    ELSE IF r.tok = NoTok
    THEN [p |-> ParserErr([p EXCEPT !.lexer = r.lexer], UnexpectedEndOfToken),
          tok |-> NoTok]
    ELSE [p |-> [p EXCEPT !.lexer = r.lexer], tok |-> r.tok]

expect_next_token(p) == Expected(p, LexerNext(p.lexer))

LoadLit(tok) == IF tok.t = "IntLit" THEN LoadInt(tok.v) ELSE LoadStr(tok.v)

\* Duplicate is pushed before the literal is read, Equal after it.
CompareLit(p, tok) ==
    parser_push(parser_push(p, LoadLit(tok)), OperatorInst("Equal"))

\* The loop of read_select_arm: `| literal` as long as no `{` follows.
RECURSIVE ArmAlternatives(_)

ArmLiteral(e) ==
    IF ~Parsing(e.p) THEN e.p
    ELSE IF e.tok.t \notin {"IntLit", "StrLit"}
    THEN ParserErr(e.p, make_unexpected_token_err(e.p, e.tok))
    ELSE ArmAlternatives(parser_push(CompareLit(e.p, e.tok), OperatorInst("Or")))

ArmOr(p, s) ==
    IF s.tok = NoTok THEN p
    ELSE IF s.tok.t /= "Operator" \/ s.tok.v /= "Or"
    THEN ParserErr(s.p, make_unexpected_token_err(s.p, s.tok))
    ELSE ArmLiteral(expect_next_token(parser_push(s.p, Duplicate)))

ArmAlternatives(p) == ArmOr(p, try_strip_not_open_brace(p))

ArmWaits(a, prev_end) ==
    IF ~Parsing(a) THEN a ELSE WaitPush(a, State("SelectArm", prev_end))

ArmOf(e, prev_end) ==
    IF ~Parsing(e.p) THEN e.p
    ELSE IF e.tok.t = "Underscore" THEN WaitPush(e.p, State("SelectElse", prev_end))
    ELSE IF e.tok.t \notin {"IntLit", "StrLit"}
    THEN ParserErr(e.p, make_unexpected_token_err(e.p, e.tok))
    ELSE ArmWaits(ArmAlternatives(CompareLit(parser_push(e.p, Duplicate), e.tok)),
                  prev_end)

read_select_arm(p, prev_end) == ArmOf(expect_next_token(p), prev_end)

\* process_token is [p, state]: state.s is "None" for Ok(None).
process_token(p, tok) ==
    LET none == State("None", 0)
        emit(inst) == [p |-> parser_push(p, inst), state |-> none]
        to(state) == [p |-> p, state |-> state]
    IN  CASE tok.t = "Conditional" -> emit(Conditional)
          [] tok.t = "Duplicate" -> emit(Duplicate)
          [] tok.t = "Pop" -> emit(Pop)
          [] tok.t = "Exit" -> emit(Exit)
          [] tok.t = "IntLit" -> emit(LoadInt(tok.v))
          [] tok.t = "StrLit" -> emit(LoadStr(tok.v))
          [] tok.t = "Variable" -> emit(LoadVar(tok.v))
          [] tok.t = "Builtin" -> emit(LoadBuiltin(tok.v))
          [] tok.t = "Assign" -> emit(StoreVar(tok.v))
          [] tok.t = "Operator" -> emit(OperatorInst(tok.v))
          [] tok.t = "Colon" -> emit(PrintInst(FALSE, FALSE))
          [] tok.t = "At" -> emit(PrintInst(TRUE, FALSE))
          [] tok.t = "Sharp" -> emit(PrintInst(TRUE, TRUE))
          [] tok.t = "If" -> to(State("If", 0))
          [] tok.t = "Else" -> to(State("Else", 0))
          [] tok.t = "OpenBrace" -> to(State("OpenBrace", 0))
          [] tok.t = "CloseBrace" -> to(State("CloseBrace", 0))
          [] tok.t = "Loop" -> to(State("Loop", parser_next_pos(p)))
          [] tok.t = "Select" -> to(State("Select", 0))
          [] tok.t \in {"ElseIf", "Underscore"} ->
                [p |-> ParserErr(p, make_unexpected_token_err(p, tok)), state |-> none]

\* The block is pushed on block_stack, then Nop and StartBlock on ret.
Opened(p, block) == parser_push(parser_push(BlockPush(p, block), Nop), StartBlock)

FirstArm(p) == IF peek_next_is_close_brace(p) THEN p ELSE read_select_arm(p, 0)

\* The state w that waited for the block has been popped off p.wait.
OpenBlock(p, w) ==
    CASE w.s = "If" -> Opened(p, BlockState("IfBlock", parser_next_pos(p), 0))
      [] w.s = "ElseIf" -> Opened(p, BlockState("ElseIfBlock", w.pos, parser_next_pos(p)))
      [] w.s = "Else" ->
            parser_push(BlockPush(p, BlockState("ElseBlock", parser_next_pos(p) - 1, 0)),
                        StartBlock)
      [] w.s = "Loop" -> Opened(p, BlockState("LoopBlock", w.pos, parser_next_pos(p)))
      [] w.s = "Select" -> FirstArm(BlockPush(p, BlockState("SelectBlock", 0, 0)))
      [] w.s = "SelectArm" ->
            Opened(p, BlockState("SelectArmBlock", w.pos, parser_next_pos(p)))
      [] w.s = "SelectElse" ->
            parser_push(BlockPush(p, BlockState("SelectElseBlock", w.pos, 0)), StartBlock)

\* State::OpenBrace: the state that waits for the block is popped, unwrap
\* aborts when there is none.
OnOpenBrace(p) ==
    IF p.wait = <<>> THEN ParserAbort(p)
    ELSE OpenBlock([p EXCEPT !.wait = SubSeq(@, 1, Len(@) - 1)], p.wait[Len(p.wait)])

\* self.ret[pos] = Goto(self.next_pos()), GotoIfNot(self.next_pos())
SetGoto(p, pos) == SetRet(p, pos, Goto(parser_next_pos(p)))
SetGotoIfNot(p, pos) == SetRet(p, pos, GotoIfNot(parser_next_pos(p)))

\* After EndBlock, the Nop an else or an else-if that follows is given.
ElseGiven(e, s) == IF s.some THEN parser_push(WaitPush(s.p, s.state), Nop) ELSE e
ThenElse(e) == ElseGiven(e, try_strip_token_else_or_else_if(e))

\* The end of an arm of a select: n is the parser after the Nop at pos.
NextArm(g, pos) ==
    IF ~peek_next_is_close_brace(g) THEN read_select_arm(g, pos)
    ELSE [g EXCEPT !.ret = SubSeq(@, 1, Len(@) - 1)]

PatchPrev(t, prev_end, pos) ==
    IF prev_end /= 0 THEN SetRet(t, prev_end, Goto(pos)) ELSE t

CloseArm(e, prev_end, top) ==
    NextArm(PatchPrev(SetGotoIfNot(parser_push(e, Nop), top), prev_end,
                      parser_next_pos(e)),
            parser_next_pos(e))

\* The block b has been popped off block_stack; e is the parser after the
\* EndBlock every block but SelectBlock ends with.
CloseBlock(p, e, b) ==
    CASE b.b = "IfBlock" -> SetGotoIfNot(ThenElse(e), b.x)
      [] b.b = "ElseIfBlock" -> SetGotoIfNot(ThenElse(SetGoto(e, b.x)), b.y)
      [] b.b = "ElseBlock" -> SetGoto(e, b.x)
      [] b.b = "LoopBlock" -> SetGotoIfNot(parser_push(e, Goto(b.x)), b.y)
      [] b.b = "SelectBlock" -> parser_push(p, Pop)
      [] b.b = "SelectArmBlock" -> CloseArm(e, b.x, b.y)
      [] b.b = "SelectElseBlock" -> IF b.x /= 0 THEN SetGoto(e, b.x) ELSE e

Popped(p) == [p EXCEPT !.blocks = SubSeq(@, 1, Len(@) - 1)]

\* State::CloseBrace: the innermost block is popped, unwrap aborts when
\* there is none.
OnCloseBrace(p) ==
    IF p.blocks = <<>> THEN ParserAbort(p)
    ELSE CloseBlock(Popped(p), parser_push(Popped(p), EndBlock), p.blocks[Len(p.blocks)])

Dispatch(t) ==
    IF ~Parsing(t.p) \/ t.state.s = "None" THEN t.p
    ELSE IF t.state.s = "OpenBrace" THEN OnOpenBrace(t.p)
    ELSE IF t.state.s = "CloseBrace" THEN OnCloseBrace(t.p)
    ELSE WaitPush(t.p, t.state)

\* One turn of the loop of Parser::parse on the token the lexer gave.
ParseToken(p, tok) == Dispatch(process_token(p, tok))

\* `while let Some(token) = self.next_token()?`: r is what the lexer gave.
Turn(p, r) ==
    IF ~r.ok THEN ParserErr([p EXCEPT !.lexer = r.lexer], r.err)
    ELSE IF r.tok = NoTok THEN [p EXCEPT !.lexer = r.lexer, !.status = "ok"]
    ELSE ParseToken([p EXCEPT !.lexer = r.lexer], r.tok)

\* Parser::parse: the loop ends with Ok(ret) when the lexer has no token
\* left, with the error of the lexer or of a turn otherwise.
RECURSIVE parse_loop(_)
parse_loop(p) ==
    IF ~Parsing(p) THEN p ELSE parse_loop(Turn(p, LexerNext(p.lexer)))

parse(source) == parse_loop(ParserNew(source))

\* run_instruction for the instructions Parser::parse emits: StartBlock
\* pushes an empty block, EndBlock pops the innermost one, Duplicate pushes
\* the top of the current block again, LoadBuiltin pushes what load returns
\* (Int(0), the builtin that records).
CallLoad(name) == [call |-> "load", arg |-> name]

RunDuplicate(m, insts) ==
    IF ~HasBlock(m) THEN Panic(m)
    ELSE IF Top(m) = <<>> THEN Fail(m, make_err(m, insts, "peek"))
    ELSE vm_push(m, Top(m)[Len(Top(m))])

run_emitted_instruction(m, insts, inst, ret, build) ==
    CASE inst.op = "StartBlock" -> Advance([m EXCEPT !.ctx.stack = Append(@, <<>>)])
      [] inst.op = "EndBlock" ->
            Advance([m EXCEPT !.ctx.stack = SubSeq(@, 1, Len(@) - 1)])
      [] inst.op = "Duplicate" -> Advance(RunDuplicate(m, insts))
      [] inst.op = "LoadBuiltin" ->
            Advance(vm_push(Record(m, <<CallLoad(inst.arg)>>), IntValue(0)))
      [] OTHER -> run_instruction(m, insts, inst, ret, build)

(***************************************************************************)
(* The parser specification: Parser::parse reads a source text, one turn   *)
(* of its loop a step; when it returned Ok(ret), Context::new takes ret    *)
(* and Context::run executes it, one run_instruction a step.  Instruction  *)
(* i is on line i.  hist.tokens is what the lexer gave the loop: each      *)
(* token or error with the line of the lexer after the read and the number *)
(* of characters of the source before the token.                           *)
(***************************************************************************)
MaxEmitArms == 2     \* arms of a select, the `_` arm apart
MaxLineWords == 3    \* words of a text of lines
MaxEmitSteps == 30   \* instructions the run of an emitted program executes

Spaced(ws) == Concat([i \in 1..Len(ws) |-> ws[i] \o <<" ">>])

StrA == <<"'", "a", "'">>
SelectedLits == {<<"1">>, <<"2">>, <<"3">>, StrA}
ArmLits == {<<"1">>, <<"2">>, StrA, <<"1", "|", "2">>}

\* `i {` k `: }`
ArmText(lit, k) == <<lit, <<"{">>, Digits(k), <<":">>, <<"}">>>>

\* `선택 v { lit1 { 1: } lit2 { 2: } _ { 9: } }`
SelectText(v, lits, else) ==
    Spaced(<<<<"Select">>, v, <<"{">>>>
          \o Concat([i \in 1..Len(lits) |-> ArmText(lits[i], i)])
          \o (IF else THEN ArmText(<<"_">>, 9) ELSE <<>>)
          \o <<<<"}">>>>)

SelectTexts ==
    {SelectText(v, lits, else) :
        v \in SelectedLits, lits \in SeqsUpTo(ArmLits, MaxEmitArms), else \in BOOLEAN}

BalancedTexts ==
    {Spaced(<<<<"If">>, <<"1">>, <<"{">>, <<"2">>, <<":">>, <<"}">>>>),
     Spaced(<<<<"If">>, <<"0">>, <<"{">>, <<"2">>, <<":">>, <<"}">>,
             <<"Else">>, <<"{">>, <<"3">>, <<":">>, <<"}">>>>),
     Spaced(<<<<"Loop">>, <<"0">>, <<"{">>, <<"1">>, <<":">>, <<"}">>, <<"4">>, <<"@">>>>),
     SelectText(<<"2">>, <<<<"1">>, <<"2">>>>, TRUE),
     Spaced(<<<<"1">>, <<"2">>, <<"+">>, <<"#">>>>)}

Braces == {"{", "}"}
Without(text, i) == SubSeq(text, 1, i - 1) \o SubSeq(text, i + 1, Len(text))
Inserted(text, i, c) == SubSeq(text, 1, i) \o <<c, " ">> \o SubSeq(text, i + 1, Len(text))

\* A balanced text with one brace left out or one brace put in.
UnbalancedTexts ==
    UNION {{Without(t, i) : i \in {j \in 1..Len(t) : t[j] \in Braces}}
           \cup {Inserted(t, i, c) :
                    i \in {0} \cup {j \in 1..Len(t) : t[j] = " "}, c \in Braces} :
           t \in BalancedTexts}

LineWords ==
    {<<"1", " ">>, <<"\n">>, <<";", "a", "\n">>, <<"'", "a", "\n", "b", "'", " ">>,
     <<"'", "a", "'", " ">>, <<"'", "\n">>, <<"?">>, <<"[$", "a", "]">>}

LineTexts == {Concat(ws) : ws \in SeqsUpTo(LineWords, MaxLineWords)}

EmitTexts == SelectTexts \cup BalancedTexts \cup UnbalancedTexts \cup LineTexts

InitEmit ==
    /\ phase = "parsing"
    /\ ast \in EmitTexts
    /\ compiled = [out |-> <<>>, parser |-> ParserNew(ast)]
    /\ vm = [ctx |-> ContextNew, builtin |-> BuiltinNew]
    /\ steps = 0
    /\ hist = [tokens |-> <<>>]
    /\ IdleInterner
    /\ IdleSerde
    /\ IdleFormatter
    /\ IdleIO

\* One turn of `while let Some(token) = self.next_token()?`: the error of
\* the lexer is returned, the end of the text returns Ok(ret), a token is
\* processed.
ParseTurn ==
    /\ phase = "parsing"
    /\ Parsing(compiled.parser)
    /\ \E r \in {LexerNext(compiled.parser.lexer)} :
          /\ compiled' = [compiled EXCEPT !.parser = Turn(@, r)]
          /\ hist' = IF r.ok /\ r.tok = NoTok THEN hist
                     ELSE [tokens |-> Append(hist.tokens,
                               [ok |-> r.ok, t |-> r.tok.t,
                                line |-> IF r.ok THEN r.lexer.line ELSE r.err.line,
                                start |-> Len(ast)
                                          - Len(skip_ws(compiled.parser.lexer).text)])]
    /\ UNCHANGED <<phase, ast, vm, steps, intern, serde, fmt, io>>

\* Context::new(&bump, &instructions) on what parse returned.
ContextStart ==
    /\ phase = "parsing"
    /\ compiled.parser.status = "ok"
    /\ phase' = "running"
    /\ compiled' = [compiled EXCEPT !.out = OnLines(compiled.parser.ret)]
    /\ UNCHANGED <<ast, vm, steps, hist, intern, serde, fmt, io>>

RunEmitted ==
    /\ phase = "running"
    /\ vm.ctx.status = "running"
    /\ vm.ctx.cursor < Len(Out)
    /\ steps < MaxEmitSteps
    /\ \E ret \in RunReturns, build \in Builds :
          vm' = run_emitted_instruction(vm, Out, Out[vm.ctx.cursor + 1].inst, ret, build)
    /\ steps' = steps + 1
    /\ UNCHANGED <<phase, compilerVars, hist, intern, serde, fmt, io>>

NextEmit == ParseTurn \/ ContextStart \/ RunEmitted \/ RunReturn

SpecEmit == InitEmit /\ [][NextEmit]_vars

\* The kinds of the tokens of a text, as the lexer gives them one after the
\* other, and whether it gave them all without an error.
RECURSIVE TokensFrom(_, _)

TokensAfter(r, toks) ==
    IF ~r.ok THEN [ok |-> FALSE, toks |-> toks]
    ELSE IF r.tok = NoTok THEN [ok |-> TRUE, toks |-> toks]
    ELSE TokensFrom(r.lexer, Append(toks, r.tok.t))

TokensFrom(lx, toks) == TokensAfter(LexerNext(lx), toks)

\* The blocks open after the first k tokens, by the count of the braces.
BraceDepth(toks, k) ==
    Cardinality({j \in 1..k : toks[j] = "OpenBrace"})
    - Cardinality({j \in 1..k : toks[j] = "CloseBrace"})

BlockWords == {"If", "ElseIf", "Else", "Loop", "Select"}

\* A `}` with no open block.
ClosesUnopened(toks) ==
    \E k \in 1..Len(toks) : toks[k] = "CloseBrace" /\ BraceDepth(toks, k - 1) = 0

\* A `{` with no block keyword before it.
OpensUnintroduced(toks) ==
    \E k \in 1..Len(toks) :
        toks[k] = "OpenBrace" /\ \A j \in 1..(k - 1) : toks[j] \notin BlockWords

\* The end of the text inside an open block.
EndsInBlock(toks) ==
    /\ BraceDepth(toks, Len(toks)) > 0
    /\ \A k \in 1..Len(toks) : BraceDepth(toks, k) >= 0

Unbalanced(text) ==
    \E l \in {TokensFrom(LexerNew(text), <<>>)} :
        l.ok /\ (ClosesUnopened(l.toks) \/ OpensUnintroduced(l.toks) \/ EndsInBlock(l.toks))

ParseEnded == compiled.parser.status /= "parsing"

\* C33. For a source text whose braces are unbalanced (a `}` with no open
\* block, a `{` that no block keyword introduced, the end of the text inside
\* an open block) Parser::parse returns a ParserError: it returns no
\* instruction list and it does not abort.
C33_UnbalancedRejected ==
    (ParseEnded /\ Unbalanced(ast)) => compiled.parser.status = "err"

(***************************************************************************)
(* The halting specification: every program of the compiler specification  *)
(* and of the VM specification is compiled and Context::run executes it,   *)
(* one run_instruction a step, every builtin call returning at once.       *)
(***************************************************************************)
MaxHaltSteps == 40    \* instructions one run executes, beyond the longest program

InitHalt ==
    /\ phase = "running"
    /\ ast \in Programs \cup VMPrograms
    /\ compiled = compile(ast)
    /\ vm = [ctx |-> RootContext, builtin |-> BuiltinNew]
    /\ steps = 0
    /\ hist = [entry |-> Entry([ctx |-> RootContext, builtin |-> BuiltinNew], NoStmt),
               done |-> NoneDone, last |-> Nop]
    /\ IdleInterner
    /\ IdleSerde
    /\ IdleFormatter
    /\ IdleIO

RunToHalt == RunInstructionWithin(MaxHaltSteps)

NextHalt == RunToHalt \/ RunReturn

SpecHalt == InitHalt /\ [][NextHalt]_vars

\* The positions of the jumps whose target is not greater than their own
\* position, and the positions of the Gotos that close the While statements.
BackwardJumps ==
    {i \in 0..(Len(Out) - 1) : IsJump(InstAt(i)) /\ InstAt(i).arg <= i}

WhileGotos ==
    {WhileGoto(l.stmt, l.start) : l \in {k \in PlacedStmts : k.stmt.t = "While"}}

WhileFree == WhileGotos = {}

\* C34. In a compiled program the only jumps whose target is not greater
\* than their own position are the Gotos that close the While statements.
\* In the run of a program compiled from an AST without While statements
\* every instruction step either moves the cursor forward or ends the run
\* with an error or an abort, and after len steps at the latest no step is
\* left but the return of run.
C34_OnlyWhileGoesBack ==
    /\ [](/\ BackwardJumps \subseteq WhileGotos
          /\ WhileFree =>
                /\ steps <= Len(Out)
                /\ steps <= vm.ctx.cursor \/ Stopped(vm)
                /\ steps = Len(Out) => (vm.ctx.cursor >= Len(Out) \/ Stopped(vm)))
    /\ [][(WhileFree /\ steps' = steps + 1) =>
            (vm'.ctx.cursor > vm.ctx.cursor \/ Stopped(vm'))]_vars

\* run has returned Ok after as many steps as a program without While has
\* instructions, with forward jumps in it.
C34_Witness ==
    /\ WhileFree
    /\ vm.ctx.status = "done"
    /\ steps = Len(Out)
    /\ \E i \in 0..(Len(Out) - 1) : IsJump(InstAt(i))
    /\ Len(Out) > 8

\* The loop of VM i of the pair has ended: run returned or aborted.
PairEnded(i) == vm[i].ctx.status /= "running"

\* C35. Running a program with `&mut B` as the builtin has the same effects
\* on B, in the same order, as running it with B by value: when the VM that
\* is handed its builtin by value and the VM that is handed a mutable
\* reference have both run the program to its end, the two builtins have
\* received the same calls, the wait of every print-wait among them.
C35_ByReferenceSameCalls ==
    (phase = "running" /\ hist.byref[2] /\ PairEnded(1) /\ PairEnded(2)) =>
        SameCalls(vm[1].builtin, vm[2].builtin)

\* The string literals among tokens, in their order.
RECURSIVE StrLitsOf(_)
StrLitsOf(tokens) ==
    IF tokens = <<>> THEN <<>>
    ELSE (IF Head(tokens).t = "StrLit" THEN <<Head(tokens).v>> ELSE <<>>)
         \o StrLitsOf(Tail(tokens))

\* C36. The formatter writes every string literal with exactly the
\* characters of the literal of the source, a literal that holds a newline
\* inside an indented block included: the string literals read from the
\* formatted text are the string literals read from the source, in the same
\* order.
C36_StringLiteralsKept ==
    WasFormatted =>
        \E s \in {SourceLex} : \E f \in {FormattedLex} :
            f.ok /\ StrLitsOf(f.tokens) = StrLitsOf(s.tokens)

(***************************************************************************)
(* The kesfmt specification (kesfmt/src/main.rs): the files `**/*.kes` of  *)
(* a disk are formatted in place, each by one run of the closure of        *)
(* try_for_each, the runs of different files interleaved as the threads of *)
(* the pool take them.  io is [initial, files, source, job, exit]: the     *)
(* contents of the files before and now, what read_to_string returned, how *)
(* far the closure of each file is, and the way the process ended.         *)
(***************************************************************************)
MaxFiles == 2    \* files **/*.kes on the disk

Paths == 1..MaxFiles

KesTexts ==
    {<<"1", ";", "2", ";">>,
     <<"if", "1", "{", "@", "1", ";", "}">>,
     <<"@", "'", "a">>,
     <<"if", "1", "{">>}

InitKesfmt ==
    /\ phase = "formatting"
    /\ \E files \in [Paths -> KesTexts] :
          io = [initial |-> files, files |-> files,
                source |-> [p \in Paths |-> <<>>],
                job |-> [p \in Paths |-> "todo"], exit |-> "running"]
    /\ IdleCompiler
    /\ IdleVM
    /\ IdleInterner
    /\ IdleSerde
    /\ IdleFormatter

KesfmtUnchanged == UNCHANGED <<phase, compilerVars, vmVars, intern, serde, fmt>>

\* try_for_each takes no further file once a closure has returned an Err.
NoneFailed == \A p \in Paths : io.job[p] /= "failed"

\* let source = std::fs::read_to_string(&path)?;
ReadToString(p) ==
    /\ io.exit = "running"
    /\ io.job[p] = "todo"
    /\ NoneFailed
    /\ io' = [io EXCEPT !.source[p] = io.files[p], !.job[p] = "read"]
    /\ KesfmtUnchanged

\* let mut out = std::fs::File::create(&path)?; an existing file is
\* truncated.
FileCreate(p) ==
    /\ io.job[p] = "read"
    /\ io' = [io EXCEPT !.files[p] = <<>>, !.job[p] = "created"]
    /\ KesfmtUnchanged

\* kes::formatter::format_code(&source, &out)?; the formatted text is
\* written to the file when the source parses, nothing is when it does not.
FormatFile(p) ==
    /\ io.job[p] = "created"
    /\ \E r \in {format_code_to_string(io.source[p])} :
          io' = IF r.ok THEN [io EXCEPT !.files[p] = @ \o r.out, !.job[p] = "formatted"]
                ELSE [io EXCEPT !.job[p] = "failed"]
    /\ KesfmtUnchanged

\* out.flush()?; Ok(())
FlushFile(p) ==
    /\ io.job[p] = "formatted"
    /\ io' = [io EXCEPT !.job[p] = "done"]
    /\ KesfmtUnchanged

\* .unwrap(): the process ends when no closure runs any more, with an abort
\* when one of them returned an Err.
KesfmtExit ==
    /\ io.exit = "running"
    /\ \A p \in Paths : io.job[p] \in {"todo", "done", "failed"}
    /\ ~NoneFailed \/ \A p \in Paths : io.job[p] = "done"
    /\ io' = [io EXCEPT !.exit = IF NoneFailed THEN "ok" ELSE "abort"]
    /\ KesfmtUnchanged

NextKesfmt ==
    \/ \E p \in Paths : ReadToString(p) \/ FileCreate(p) \/ FormatFile(p) \/ FlushFile(p)
    \/ KesfmtExit

SpecKesfmt == InitKesfmt /\ [][NextKesfmt]_vars

\* C37. When kesfmt fails to format a file because its source does not
\* parse, the contents of that file on disk are the contents it had before;
\* only the files that were formatted successfully are rewritten.
C37_FailedFileUnchanged ==
    \A p \in Paths :
        /\ io.job[p] = "failed" => io.files[p] = io.initial[p]
        /\ (io.exit /= "running" /\ io.files[p] /= io.initial[p]) => io.job[p] = "done"

\* The newline characters among the first n characters of the source.
NewlinesBefore(n) == Count(SubSeq(ast, 1, n), "\n")

\* C38. The line the lexer reports for a token or for a lexical error is 1
\* plus the number of newline characters that precede the token in the
\* source, the newlines inside comments and inside string literals counted
\* as well.
C38_TokenLines ==
    \A k \in 1..Len(hist.tokens) :
        hist.tokens[k].line = 1 + NewlinesBefore(hist.tokens[k].start)

\* The run of a program that is one select statement has returned Ok.
SelectRan == phase = "running" /\ ast \in SelectTexts /\ vm.ctx.status = "done"

\* C39. The code Parser::parse emits for a select statement removes the
\* selected value from the stack on every path, whichever arm matched and
\* also when no arm matched and there is no `_` arm: after the statement the
\* stack is as deep as before it, here the root block without a value.
C39_SelectedValueRemoved == SelectRan => Depth(vm) = <<0>>

====
